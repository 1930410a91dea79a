------------------------- MODULE EmailAnalysis_proofs -------------------------
(***************************************************************************)
(* Proofs about EmailAnalysis, for any messages, commands, answers, limits *)
(* and attempts: typing; that a message is given up only when its attempts *)
(* are used up; that a phishing verdict is stored as the model gave it;    *)
(* and that a frontier row leaves the queue only when it is answered.      *)
(***************************************************************************)
EXTENDS EmailAnalysis, WellFoundedInduction, TLAPS

LEMMA MinIn ==
    ASSUME NEW S \in SUBSET Mail, S # {}
    PROVE  Min(S) \in S
<1>1. S \in SUBSET Nat
  BY MailAssumption
<1>2. PICK x \in S : \A y \in S : ~(<<y, x>> \in OpToRel(<, Nat))
  BY <1>1, NatLessThanWellFounded, WFMin
<1>3. \A y \in S : ~(y < x)
  BY <1>1, <1>2 DEF OpToRel
<1>4. \A y \in S : x <= y
  BY <1>1, <1>3
<1> QED BY <1>4 DEF Min

LEMMA Constants ==
    /\ MaxAttempts \in Nat /\ MaxAttempts >= 1 /\ FrontierMax \in Nat /\ FrontierMax >= 1
BY LimitAssumption

------------------------------------------------------------------------------
(* Typing *)

Cmds == {"none", "analyze", "claim", "frontier", "cleanup"}
Steps == {"none", "asked", "condemn", "done", "retry", "retryLast"}

LEMMA JobFields ==
    ASSUME NEW j \in Job
    PROVE  /\ j.cmd \in Cmds /\ j.left \in SUBSET Mail /\ j.seen \in [Mail -> Nat]
           /\ j.at \in [Mail -> Steps]
BY DEF Job, Cmds, Steps

LEMMA NoJobTyped ==
    ASSUME NEW cmd \in Cmds, NEW left \in SUBSET Mail, NEW seen \in [Mail -> Nat]
    PROVE  /\ NoJob \in Job
           /\ [NoJob EXCEPT !.cmd = cmd, !.left = left, !.seen = seen] \in Job
           /\ [NoJob EXCEPT !.cmd = cmd, !.left = left] \in Job
<1>1. NoMail \in [Mail -> Nat]
  BY DEF NoMail
<1> QED BY <1>1 DEF NoJob, Job, Cmds

LEMMA EndsTyped ==
    ASSUME TypeOK, NEW p, Ends(p)
    PROVE  job' \in [Processes -> Job]
<1>1. NoJob \in Job
  <2>1. NoMail \in [Mail -> Nat]
    BY DEF NoMail
  <2> QED BY <2>1 DEF NoJob, Job
<1> QED BY <1>1 DEF TypeOK, Ends

LEMMA GotoTyped ==
    ASSUME TypeOK, NEW p \in Processes, NEW m, NEW step \in Steps, Goto(p, m, step)
    PROVE  job' \in [Processes -> Job]
<1>1. job[p] \in Job
  BY DEF TypeOK
<1>2. [job[p] EXCEPT !.at[m] = step, !.seen[m] = IF step = "none" THEN 0 ELSE @] \in Job
  BY <1>1 DEF Job, Steps
<1> QED BY <1>1, <1>2 DEF TypeOK, Goto

LEMMA FaultTyped ==
    ASSUME TypeOK, Fault \/ NoFault
    PROVE  faults' \in 0 .. FaultBudget
BY LimitAssumption DEF TypeOK, Fault, NoFault

\* What is stored of an answer is a row, with the attempts and the verdict it had.
LEMMA StoredTyped ==
    ASSUME NEW r \in Row, NEW v \in Answers, NEW a \in Repaired(v)
    PROVE  /\ Stored(r, a) \in Row /\ Stored(r, a).attempts = r.attempts
           /\ ~Stored(r, a).permanent
           /\ Stored(r, a).phishing =>
                Stored(r, a).spam = v.spam /\ Stored(r, a).marketing = v.marketing
<1>1. v \in Verdict
  BY AnswerAssumption
<1>2. /\ a \in Verdict /\ a.spam = v.spam /\ a.marketing = v.marketing
  BY <1>1 DEF Repaired, Aligned, Verdict
<1> DEFINE n == Normalized(a)
<1>3. /\ n.spam \in BOOLEAN /\ n.phishing \in BOOLEAN /\ n.marketing \in BOOLEAN /\ n.newsletter \in BOOLEAN
      /\ n.otp \in BOOLEAN /\ n.expiry \in BOOLEAN
  BY <1>2 DEF Normalized, Verdict, Spam, Phishing, Marketing, Newsletter, Code
<1>4. n.phishing => n.spam = a.spam /\ n.marketing = a.marketing
  BY <1>2 DEF Normalized, Verdict, Spam, Phishing, Marketing, ThreatBlocks, SignatureOnly
<1>5. Stored(r, a) = [r EXCEPT !.analyzed = TRUE, !.cooling = FALSE, !.permanent = FALSE,
                              !.action = FALSE, !.spam = n.spam, !.phishing = n.phishing,
                              !.marketing = n.marketing, !.code = n.otp,
                              !.expiry = @ \/ n.expiry, !.newsletter = n.newsletter]
  BY DEF Stored
<1> HIDE DEF n
<1>6. r.expiry \/ n.expiry \in BOOLEAN
  BY <1>3 DEF Row
<1>7. Stored(r, a) \in Row
  <2>1. PICK early \in Row : early = [r EXCEPT !.analyzed = TRUE, !.cooling = FALSE,
                                       !.permanent = FALSE, !.action = FALSE]
    BY DEF Row
  <2>2. PICK verdict \in Row : verdict = [early EXCEPT !.spam = n.spam, !.phishing = n.phishing,
                                         !.marketing = n.marketing]
    BY <1>3 DEF Row
  <2>3. [verdict EXCEPT !.code = n.otp, !.expiry = r.expiry \/ n.expiry,
                        !.newsletter = n.newsletter] \in Row
    BY <1>3, <1>6 DEF Row
  <2>4. Stored(r, a) = [verdict EXCEPT !.code = n.otp, !.expiry = r.expiry \/ n.expiry,
                                      !.newsletter = n.newsletter]
    BY <1>5, <2>1, <2>2 DEF Row
  <2> QED BY <2>3, <2>4
<1>8. /\ Stored(r, a).attempts = r.attempts /\ ~Stored(r, a).permanent
      /\ Stored(r, a).phishing = n.phishing /\ Stored(r, a).spam = n.spam
      /\ Stored(r, a).marketing = n.marketing
  BY <1>5 DEF Row
<1> QED BY <1>2, <1>4, <1>7, <1>8

LEMMA AttemptTyped ==
    ASSUME NEW r \in Row, NEW transient \in BOOLEAN
    PROVE  /\ AttemptFailed(r, transient) \in Row
           /\ AttemptFailed(r, transient).attempts = Capped(r.attempts + 1, MaxAttempts)
           /\ AttemptFailed(r, transient).permanent = r.permanent
           /\ AttemptFailed(r, transient).phishing = r.phishing
           /\ AttemptFailed(r, transient).spam = r.spam
           /\ AttemptFailed(r, transient).marketing = r.marketing
<1>1. Capped(r.attempts + 1, MaxAttempts) \in 0 .. MaxAttempts
  BY Constants DEF Capped, Row
<1> QED BY <1>1 DEF AttemptFailed, Row

LEMMA SmallTyped ==
    ASSUME TypeOK, NEW m \in Mail
    PROVE  /\ \A r \in Row : row' = [row EXCEPT ![m] = r] => row' \in [Mail -> Row]
           /\ \A q \in Queue : queue' = [queue EXCEPT ![m] = q] => queue' \in [Mail -> Queue]
           /\ row[m] \in Row /\ queue[m] \in Queue
BY DEF TypeOK

LEMMA AnalyzeTyped ==
    ASSUME TypeOK, NEW p \in Processes, NEW batch \in SUBSET Mail, Analyze(p, batch)
    PROVE  TypeOK'
<1> DEFINE seen == [m \in Mail |-> IF m \in batch THEN row[m].attempts ELSE 0]
<1>1. seen \in [Mail -> Nat]
  BY DEF TypeOK, Row
<1>2. [NoJob EXCEPT !.cmd = "analyze", !.left = batch, !.seen = seen] \in Job
  BY <1>1, NoJobTyped DEF Cmds
<1>3. job' = [job EXCEPT ![p] = [NoJob EXCEPT !.cmd = "analyze", !.left = batch, !.seen = seen]]
  BY DEF Analyze
<1> HIDE DEF seen
<1> QED BY <1>2, <1>3 DEF Analyze, TypeOK

LEMMA AskTyped ==
    ASSUME TypeOK, NEW p \in Processes, Ask(p) \/ AskFrontier(p)
    PROVE  TypeOK'
<1>1. job[p] \in Job
  BY DEF TypeOK
<1>2. \A m : [job[p] EXCEPT !.left = @ \ {m}, !.at[m] = "asked"] \in Job
  BY <1>1 DEF Job
<1>3. PICK m : job' = [job EXCEPT ![p].left = @ \ {m}, ![p].at[m] = "asked"]
  BY DEF Ask, AskFrontier
<1>4. job' = [job EXCEPT ![p] = [job[p] EXCEPT !.left = @ \ {m}, !.at[m] = "asked"]]
  BY <1>3
<1>5. job' \in [Processes -> Job]
  BY <1>2, <1>4 DEF TypeOK
<1> QED BY <1>5 DEF Ask, AskFrontier, TypeOK

LEMMA AnalysisTyped ==
    ASSUME TypeOK, NEW p \in Processes, NEW m \in Mail, AnalysisStep(p, m)
    PROVE  TypeOK'
<1>1. row[m] \in Row /\ job[p] \in Job /\ faults' \in 0 .. FaultBudget
  BY FaultTyped DEF TypeOK, AnalysisStep, Answered, SaveFails, AnalysisFails, Condemn
<1>2. UNCHANGED <<queue, due, trash, deep>>
  BY DEF AnalysisStep, Answered, SaveFails, AnalysisFails, Condemn
<1>3. row' \in [Mail -> Row]
  <2>1. CASE Answered(p, m)
    BY <1>1, <2>1, StoredTyped, SmallTyped DEF Answered
  <2>2. CASE SaveFails(p, m)
    BY <2>2 DEF SaveFails, TypeOK
  <2>3. CASE AnalysisFails(p, m)
    BY <1>1, <2>3, AttemptTyped, SmallTyped DEF AnalysisFails, TypeOK
  <2>4. CASE Condemn(p, m)
    <3>1. [row[m] EXCEPT !.permanent = TRUE] \in Row
      BY <1>1 DEF Row
    <3> QED BY <2>4, <3>1, SmallTyped DEF Condemn, TypeOK
  <2> QED BY <2>1, <2>2, <2>3, <2>4 DEF AnalysisStep
<1>4. job' \in [Processes -> Job]
  <2>1. CASE Answered(p, m) \/ SaveFails(p, m) \/ Condemn(p, m)
    BY <2>1, GotoTyped DEF Answered, SaveFails, Condemn, Steps
  <2>2. ASSUME NEW transient \in BOOLEAN, NEW step \in {"condemn", "none"}, Failed(p, m, transient, step)
        PROVE  job' \in [Processes -> Job]
    <3> DEFINE left == IF transient /\ Concurrency = 1 THEN {} ELSE job[p].left
    <3>1. left \in SUBSET Mail
      BY <1>1 DEF Job
    <3>2. job' = [job EXCEPT ![p] = [job[p] EXCEPT !.at[m] = step, !.seen[m] = 0, !.left = left]]
      BY <2>2 DEF Failed
    <3> HIDE DEF left
    <3>3. [job[p] EXCEPT !.at[m] = step, !.seen[m] = 0, !.left = left] \in Job
      BY <1>1, <3>1 DEF Job
    <3> QED BY <3>2, <3>3 DEF TypeOK
  <2>3. CASE AnalysisFails(p, m)
    BY <2>2, <2>3 DEF AnalysisFails
  <2> QED BY <2>1, <2>3 DEF AnalysisStep
<1> QED BY <1>1, <1>2, <1>3, <1>4 DEF TypeOK

LEMMA FrontierTyped ==
    ASSUME TypeOK, NEW p \in Processes, NEW m \in Mail, FrontierStep(p, m)
    PROVE  TypeOK'
<1>1. row[m] \in Row /\ queue[m] \in Queue /\ job[p] \in Job /\ faults' \in 0 .. FaultBudget
  BY FaultTyped DEF TypeOK, FrontierStep, FrontierAnswered, FrontierFails, FrontierDone, FrontierRetry
<1>2. UNCHANGED <<due, trash>> /\ deep' \in {deep, deep \cup {m}}
  BY DEF FrontierStep, FrontierAnswered, FrontierFails, FrontierDone, FrontierRetry
<1>3. row' \in [Mail -> Row]
  BY <1>1, StoredTyped, SmallTyped
     DEF FrontierStep, FrontierAnswered, FrontierFails, FrontierDone, FrontierRetry, TypeOK
<1>4. queue' \in [Mail -> Queue]
  <2>1. CASE UNCHANGED queue
    BY <2>1 DEF TypeOK
  <2>2. CASE queue' = [queue EXCEPT ![m].status = "absent", ![m].attempts = 0, ![m].stale = FALSE]
    <3>0. 0 \in 0 .. FrontierMax
      BY Constants
    <3>1. [queue[m] EXCEPT !.status = "absent", !.attempts = 0, !.stale = FALSE] \in Queue
      BY <1>1, <3>0 DEF Queue
    <3>2. queue' = [queue EXCEPT ![m] = [queue[m] EXCEPT !.status = "absent", !.attempts = 0, !.stale = FALSE]]
      BY <2>2
    <3> QED BY <3>1, <3>2, SmallTyped
  <2>3. ASSUME NEW status \in {"dead", "failed"},
               queue' = [queue EXCEPT ![m].stale = FALSE, ![m].ready = FALSE, ![m].status = status]
        PROVE  queue' \in [Mail -> Queue]
    <3>1. [queue[m] EXCEPT !.stale = FALSE, !.ready = FALSE, !.status = status] \in Queue
      BY <1>1 DEF Queue
    <3>2. queue' = [queue EXCEPT ![m] = [queue[m] EXCEPT !.stale = FALSE, !.ready = FALSE, !.status = status]]
      BY <2>3
    <3> QED BY <3>1, <3>2, SmallTyped
  <2>4. CASE FrontierRetry(p, m)
    BY <2>1, <2>3, <2>4 DEF FrontierRetry
  <2> QED BY <2>1, <2>2, <2>4 DEF FrontierStep, FrontierAnswered, FrontierFails, FrontierDone
<1>5. job' \in [Processes -> Job]
  BY GotoTyped, EndsTyped
     DEF FrontierStep, FrontierAnswered, FrontierFails, FrontierDone, FrontierRetry, Steps
<1> QED BY <1>1, <1>2, <1>3, <1>4, <1>5 DEF TypeOK

LEMMA QueueTyped ==
    ASSUME TypeOK, NEW p \in Processes, ResetStale(p) \/ ClaimFrontier(p)
    PROVE  TypeOK'
<1>1. queue \in [Mail -> Queue] /\ job[p] \in Job
  BY DEF TypeOK
<1>2. UNCHANGED <<row, due, trash, deep, faults>>
  BY DEF ResetStale, ClaimFrontier
<1>3. CASE ResetStale(p)
  <2>1. \A m \in Mail : [queue[m] EXCEPT !.status = "failed", !.ready = TRUE, !.stale = FALSE] \in Queue
    BY <1>1 DEF Queue
  <2>2. queue' \in [Mail -> Queue]
    BY <1>1, <1>3, <2>1 DEF ResetStale
  <2>3. [job[p] EXCEPT !.cmd = "claim"] \in Job
    BY <1>1 DEF Job
  <2>4. job' \in [Processes -> Job]
    BY <1>3, <2>3 DEF ResetStale, TypeOK
  <2> QED BY <1>2, <2>2, <2>4 DEF TypeOK
<1>4. CASE ClaimFrontier(p)
  <2> DEFINE count(m) == Capped(queue[m].attempts + 1, FrontierMax)
  <2>1. \A m \in Mail : count(m) \in 0 .. FrontierMax /\ count(m) \in Nat
    BY <1>1, Constants DEF Capped, Queue
  <2> HIDE DEF count
  <2>2. PICK batch \in SUBSET Claimable :
          /\ queue' = [m \in Mail |-> IF m \in batch
               THEN [status |-> "processing", attempts |-> count(m), ready |-> TRUE, stale |-> FALSE]
               ELSE queue[m]]
          /\ job' = [job EXCEPT ![p] = [NoJob EXCEPT !.cmd = "frontier", !.left = batch,
               !.seen = [m \in Mail |-> IF m \in batch THEN count(m) ELSE 0]]]
    BY <1>4 DEF ClaimFrontier, count
  <2>3. queue' \in [Mail -> Queue]
    BY <1>1, <2>1, <2>2 DEF Queue
  <2> DEFINE seen == [m \in Mail |-> IF m \in batch THEN count(m) ELSE 0]
  <2>4. seen \in [Mail -> Nat] /\ batch \in SUBSET Mail
    BY <2>1 DEF Claimable
  <2> HIDE DEF seen
  <2>5. [NoJob EXCEPT !.cmd = "frontier", !.left = batch, !.seen = seen] \in Job
    BY <2>4, NoJobTyped DEF Cmds
  <2>6. job' \in [Processes -> Job]
    BY <2>2, <2>5 DEF TypeOK, seen
  <2> QED BY <1>2, <2>3, <2>6 DEF TypeOK
<1> QED BY <1>3, <1>4

LEMMA CleanupTyped ==
    ASSUME TypeOK, NEW p \in Processes, Cleanup(p) \/ CleanupOne(p) \/ CleanupEnds(p) \/ BatchEnds(p) \/ Dies(p)
    PROVE  TypeOK'
<1>1. UNCHANGED <<row, queue, due, deep>> /\ faults' \in 0 .. FaultBudget /\ job[p] \in Job
  BY FaultTyped DEF Cleanup, CleanupOne, MoveToTrash, CleanupEnds, BatchEnds, Dies, TypeOK
<1>2. job' \in [Processes -> Job] /\ trash' \subseteq Mail
  <2>1. CASE Cleanup(p)
    <3>1. CleanupCandidates \in SUBSET Mail
      BY DEF CleanupCandidates
    <3>2. [NoJob EXCEPT !.cmd = "cleanup", !.left = CleanupCandidates] \in Job
      BY <3>1, NoJobTyped, NoMail \in [Mail -> Nat] DEF Cmds, NoMail
    <3> QED BY <2>1, <3>2 DEF Cleanup, TypeOK
  <2>2. CASE CleanupOne(p)
    <3>1. Min(job[p].left) \in Mail
      BY <1>1, <2>2, MinIn DEF CleanupOne, Job
    <3>2. CASE job' = [job EXCEPT ![p].left = @ \ {Min(job[p].left)}]
      <4>1. [job[p] EXCEPT !.left = @ \ {Min(job[p].left)}] \in Job
        BY <1>1 DEF Job
      <4>2. job' \in [Processes -> Job]
        BY <3>2, <4>1 DEF TypeOK
      <4> QED BY <2>2, <3>1, <4>2 DEF CleanupOne, MoveToTrash, TypeOK
    <3> QED BY <2>2, <3>1, <3>2, EndsTyped DEF CleanupOne, MoveToTrash, TypeOK
  <2>3. CASE CleanupEnds(p) \/ BatchEnds(p) \/ Dies(p)
    BY <2>3, EndsTyped DEF CleanupEnds, BatchEnds, Dies, TypeOK
  <2> QED BY <2>1, <2>2, <2>3
<1> QED BY <1>1, <1>2 DEF TypeOK

LEMMA TimeTyped ==
    ASSUME TypeOK, NEW m \in Mail, BackOffEnds(m) \/ RetryIsDue(m) \/ LockGoesStale(m) \/ Expire(m)
    PROVE  TypeOK'
<1>1. /\ [row[m] EXCEPT !.cooling = FALSE] \in Row
      /\ [queue[m] EXCEPT !.ready = TRUE] \in Queue /\ [queue[m] EXCEPT !.stale = TRUE] \in Queue
  BY SmallTyped DEF Row, Queue
<1>2. CASE BackOffEnds(m)
  BY <1>1, <1>2, SmallTyped DEF BackOffEnds, TypeOK
<1>3. CASE RetryIsDue(m)
  BY <1>1, <1>3, SmallTyped DEF RetryIsDue, TypeOK
<1>4. CASE LockGoesStale(m)
  BY <1>1, <1>4, SmallTyped DEF LockGoesStale, TypeOK
<1>5. CASE Expire(m)
  BY <1>5 DEF Expire, TypeOK
<1> QED BY <1>2, <1>3, <1>4, <1>5

LEMMA BatchIsMail ==
    ASSUME NEW S \in SUBSET Mail, NEW n
    PROVE  Newest(S, n) \in SUBSET Mail
BY DEF Newest

LEMMA TypingStep == TypeOK /\ [Next]_vars => TypeOK'
<1> SUFFICES ASSUME TypeOK, [Next]_vars PROVE TypeOK'
  OBVIOUS
<1>1. \A force : Eligible(force) \in SUBSET Mail
  BY DEF Eligible
<1>2. CASE CoreAnalyze
  BY <1>1, <1>2, AnalyzeTyped, BatchIsMail DEF CoreAnalyze, Processes
<1>3. ASSUME NEW p \in Commands, CommandAnalyze(p) \/ ResetStale(p) \/ Cleanup(p)
                                 \/ \E m \in Mail : AnalyzeOne(p, m)
      PROVE  TypeOK'
  <2>1. p \in Processes
    BY DEF Processes
  <2>2. CASE CommandAnalyze(p)
    BY <1>1, <2>1, <2>2, AnalyzeTyped, BatchIsMail DEF CommandAnalyze
  <2>3. ASSUME NEW m \in Mail, AnalyzeOne(p, m) PROVE TypeOK'
    BY <2>1, <2>3, {m} \in SUBSET Mail, AnalyzeTyped DEF AnalyzeOne
  <2> QED BY <1>3, <2>1, <2>2, <2>3, QueueTyped, CleanupTyped
<1>4. ASSUME NEW p \in Processes, Ask(p) \/ BatchEnds(p) \/ ClaimFrontier(p) \/ AskFrontier(p)
                            \/ CleanupOne(p) \/ CleanupEnds(p) \/ Dies(p)
      PROVE  TypeOK'
  BY <1>4, AskTyped, QueueTyped, CleanupTyped
<1>5. CASE UNCHANGED vars
  BY <1>5 DEF vars, TypeOK
<1> QED BY <1>2, <1>3, <1>4, <1>5, AnalysisTyped, FrontierTyped, TimeTyped DEF Next

LEMMA TypingInit == Init => TypeOK
<1> SUFFICES ASSUME Init PROVE TypeOK
  OBVIOUS
<1>1. NoJob \in Job
  BY NoJobTyped, NoMail \in [Mail -> Nat], {} \in SUBSET Mail, "none" \in Cmds DEF NoMail, Cmds
<1>2. 0 \in 0 .. MaxAttempts /\ 0 \in 0 .. FrontierMax /\ 0 \in 0 .. FaultBudget
  BY Constants, LimitAssumption
<1>3. row \in [Mail -> Row]
  BY <1>2 DEF Init, Row
<1>4. queue \in [Mail -> Queue]
  BY <1>2 DEF Init, Queue
<1>5. job \in [Processes -> Job]
  BY <1>1 DEF Init
<1> QED BY <1>2, <1>3, <1>4, <1>5 DEF Init, TypeOK

\* Every reachable state is well typed, for any messages and processes: the attempt
\* counters stay within their limits, and every status is one the schema knows
\* (analysis_cli.rs, frontier_queue.rs, message_lifecycle_cli.rs).
THEOREM Typing == Spec => []TypeOK
BY TypingInit, TypingStep, PTL DEF Spec

------------------------------------------------------------------------------
(* What a step can make of the row of a message, and of a process's hold on it. *)

Attempted(m) == \E transient \in BOOLEAN : row'[m] = AttemptFailed(row[m], transient)

RowChange(m) ==
    \/ row'[m] = row[m]
    \/ \E v \in Answers : \E a \in Repaired(v) : row'[m] = Stored(row[m], a)
    \/ Attempted(m)
    \/ (\E p \in Processes : job[p].at[m] = "condemn") /\ row'[m] = [row[m] EXCEPT !.permanent = TRUE]
    \/ row'[m] = [row[m] EXCEPT !.cooling = FALSE]

JobChange(p, m) ==
    /\ job'[p].cmd = "analyze" =>
         \/ job'[p].seen[m] \in {0, row[m].attempts}
         \/ job[p].cmd = "analyze" /\ job'[p].seen[m] = job[p].seen[m]
    /\ job'[p].at[m] = "condemn" =>
         \/ job[p].at[m] = "condemn"
         \/ job[p].cmd = "analyze" /\ LastAttempt(p, m) /\ Attempted(m)
    /\ job'[p].at[m] = "done" => job[p].at[m] = "done" \/ m \in deep'

LEMMA RowChanges ==
    ASSUME TypeOK, [Next]_vars, NEW m \in Mail
    PROVE  RowChange(m)
<1>1. row \in [Mail -> Row]
  BY DEF TypeOK
<1>2. ASSUME NEW p \in Processes, NEW n \in Mail, AnalysisStep(p, n) \/ FrontierStep(p, n)
      PROVE  RowChange(m)
  <2>1. m # n => row'[m] = row[m]
    BY <1>1, <1>2 DEF AnalysisStep, Answered, SaveFails, AnalysisFails, Condemn, FrontierStep,
                      FrontierAnswered, FrontierFails, FrontierDone, FrontierRetry
  <2>2. CASE Answered(p, n) \/ FrontierAnswered(p, n)
    BY <1>1, <2>1, <2>2 DEF Answered, FrontierAnswered, RowChange
  <2>3. CASE AnalysisFails(p, n)
    BY <1>1, <2>1, <2>3 DEF AnalysisFails, RowChange, Attempted
  <2>4. CASE Condemn(p, n)
    BY <1>1, <2>1, <2>4 DEF Condemn, RowChange
  <2>5. CASE SaveFails(p, n) \/ FrontierFails(p, n) \/ FrontierDone(p, n) \/ FrontierRetry(p, n)
    BY <2>5 DEF SaveFails, FrontierFails, FrontierDone, FrontierRetry, RowChange
  <2> QED BY <1>2, <2>2, <2>3, <2>4, <2>5 DEF AnalysisStep, FrontierStep
<1>3. ASSUME NEW n \in Mail, BackOffEnds(n) PROVE RowChange(m)
  BY <1>1, <1>3 DEF BackOffEnds, RowChange
<1>4. CASE UNCHANGED row
  BY <1>4 DEF RowChange
<1>5. ASSUME NEW n \in Mail, RetryIsDue(n) \/ LockGoesStale(n) \/ Expire(n) PROVE UNCHANGED row
  BY <1>5 DEF RetryIsDue, LockGoesStale, Expire
<1>6. ASSUME NEW p \in Processes, Ask(p) \/ BatchEnds(p) \/ ClaimFrontier(p) \/ AskFrontier(p)
                            \/ CleanupOne(p) \/ CleanupEnds(p) \/ Dies(p)
      PROVE  UNCHANGED row
  BY <1>6 DEF Ask, BatchEnds, ClaimFrontier, AskFrontier, CleanupOne, CleanupEnds, Dies
<1>7. ASSUME NEW p \in Commands, CommandAnalyze(p) \/ ResetStale(p) \/ Cleanup(p)
                                 \/ \E n \in Mail : AnalyzeOne(p, n)
      PROVE  UNCHANGED row
  BY <1>7 DEF CommandAnalyze, AnalyzeOne, Analyze, ResetStale, Cleanup
<1>8. CASE CoreAnalyze \/ UNCHANGED vars
  BY <1>4, <1>8 DEF CoreAnalyze, Analyze, vars
<1> QED BY <1>2, <1>3, <1>4, <1>5, <1>6, <1>7, <1>8 DEF Next

LEMMA JobChanges ==
    ASSUME TypeOK, [Next]_vars, NEW p \in Processes, NEW m \in Mail
    PROVE  JobChange(p, m)
<1>1. /\ job \in [Processes -> Job] /\ row \in [Mail -> Row]
      /\ \A q \in Processes : job[q] \in Job
  BY DEF TypeOK
<1>2. CASE job'[p] = job[p]
  BY <1>2 DEF JobChange
<1>3. CASE job'[p] = NoJob
  BY <1>3 DEF JobChange, NoJob
<1>4. ASSUME NEW q \in Processes, NEW batch \in SUBSET Mail, Analyze(q, batch) PROVE JobChange(p, m)
  <2>1. CASE q # p
    BY <1>1, <1>2, <1>4, <2>1 DEF Analyze
  <2>2. CASE q = p
    <3> DEFINE seen == [o \in Mail |-> IF o \in batch THEN row[o].attempts ELSE 0]
    <3>1. job'[p] = [NoJob EXCEPT !.cmd = "analyze", !.left = batch, !.seen = seen]
      BY <1>1, <1>4, <2>2 DEF Analyze
    <3>2. job'[p].seen = seen /\ job'[p].at[m] = "none"
      BY <3>1 DEF NoJob
    <3> QED BY <3>2 DEF JobChange
  <2> QED BY <2>1, <2>2
<1>5. ASSUME NEW q \in Processes, Ask(q) \/ AskFrontier(q) PROVE JobChange(p, m)
  <2>1. PICK n : job' = [job EXCEPT ![q].left = @ \ {n}, ![q].at[n] = "asked"]
    BY <1>5 DEF Ask, AskFrontier
  <2>2. /\ job'[p].cmd = job[p].cmd /\ job'[p].seen = job[p].seen
        /\ job'[p].at[m] \in {job[p].at[m], "asked"}
    BY <1>1, <2>1 DEF Job
  <2> QED BY <2>2 DEF JobChange
<1>6. ASSUME NEW q \in Processes, NEW n \in Mail, NEW step \in Steps \ {"condemn"}, Goto(q, n, step),
             step = "done" => n \in deep'
      PROVE  JobChange(p, m)
  <2>1. /\ job'[p].cmd = job[p].cmd /\ job'[p].seen[m] \in {job[p].seen[m], 0}
        /\ job'[p].at[m] = job[p].at[m] \/ (m = n /\ job'[p].at[m] = step)
    BY <1>1, <1>6 DEF Goto, Job
  <2> QED BY <1>6, <2>1 DEF JobChange
<1>7. ASSUME NEW q \in Processes, NEW n \in Mail, AnalysisFails(q, n) PROVE JobChange(p, m)
  <2>1. PICK transient \in BOOLEAN, step \in {"condemn", "none"} :
          /\ Failed(q, n, transient, step)
          /\ step = "condemn" => LastAttempt(q, n) /\ row' = [row EXCEPT ![n] = AttemptFailed(@, transient)]
    BY <1>7 DEF AnalysisFails
  <2>2. /\ job'[p].cmd = job[p].cmd /\ job'[p].seen[m] \in {job[p].seen[m], 0}
        /\ job'[p].at[m] = job[p].at[m] \/ (p = q /\ m = n /\ job'[p].at[m] = step)
    BY <1>1, <2>1 DEF Failed, Job
  <2>3. step = "condemn" => Attempted(n)
    BY <1>1, <2>1 DEF Attempted
  <2> QED BY <1>7, <2>1, <2>2, <2>3 DEF JobChange, AnalysisFails
<1>8. ASSUME NEW q \in Processes, Ends(q) PROVE JobChange(p, m)
  BY <1>1, <1>2, <1>3, <1>8 DEF Ends
<1>9. ASSUME NEW q \in Processes, NEW n \in Mail, AnalysisStep(q, n) PROVE JobChange(p, m)
  BY <1>6, <1>7, <1>9 DEF AnalysisStep, Answered, SaveFails, Condemn, Steps
<1>10. ASSUME NEW q \in Processes, NEW n \in Mail, FrontierStep(q, n) PROVE JobChange(p, m)
  <2>1. FrontierAnswered(q, n) => n \in deep' /\ Goto(q, n, "done")
    BY DEF FrontierAnswered
  <2> QED BY <1>6, <1>8, <1>10, <2>1 DEF FrontierStep, FrontierFails, FrontierDone, FrontierRetry, Steps
<1>11. ASSUME NEW q \in Processes, ResetStale(q) PROVE JobChange(p, m)
  <2>1. job'[p].at = job[p].at /\ (job'[p] = job[p] \/ job'[p].cmd = "claim")
    BY <1>1, <1>11 DEF ResetStale, Job
  <2> QED BY <2>1 DEF JobChange
<1>12. ASSUME NEW q \in Processes, NEW cmd \in {"frontier", "cleanup"}, NEW left, NEW seen,
              job' = [job EXCEPT ![q] = [NoJob EXCEPT !.cmd = cmd, !.left = left, !.seen = seen]]
       PROVE  JobChange(p, m)
  <2>1. job'[p] = job[p] \/ job'[p] = [NoJob EXCEPT !.cmd = cmd, !.left = left, !.seen = seen]
    BY <1>1, <1>12
  <2>2. CASE job'[p] # job[p]
    <3>1. job'[p] = [NoJob EXCEPT !.cmd = cmd, !.left = left, !.seen = seen]
      BY <2>1, <2>2
    <3>2. job'[p].cmd = cmd /\ job'[p].at = NoJob.at
      BY <3>1 DEF NoJob
    <3>3. NoJob.at[m] = "none"
      BY DEF NoJob
    <3> QED BY <3>2, <3>3 DEF JobChange
  <2> QED BY <1>2, <2>2
<1>13. ASSUME NEW q \in Processes, ClaimFrontier(q) PROVE JobChange(p, m)
  BY <1>12, <1>13 DEF ClaimFrontier
<1>14. ASSUME NEW q \in Processes, Cleanup(q) PROVE JobChange(p, m)
  <2>1. job'[p] = job[p] \/ job'[p] = [NoJob EXCEPT !.cmd = "cleanup", !.left = CleanupCandidates]
    BY <1>1, <1>14 DEF Cleanup
  <2>2. CASE job'[p] # job[p]
    <3>1. job'[p] = [NoJob EXCEPT !.cmd = "cleanup", !.left = CleanupCandidates]
      BY <2>1, <2>2
    <3>2. job'[p].cmd = "cleanup" /\ job'[p].at = NoJob.at
      BY <3>1 DEF NoJob
    <3>3. NoJob.at[m] = "none"
      BY DEF NoJob
    <3> QED BY <3>2, <3>3 DEF JobChange
  <2> QED BY <1>2, <2>2
<1>15. ASSUME NEW q \in Processes, CleanupOne(q) PROVE JobChange(p, m)
  <2>1. CASE Ends(q)
    BY <1>8, <2>1
  <2>2. CASE job' = [job EXCEPT ![q].left = @ \ {Min(job[q].left)}]
    <3>1. job'[p].cmd = job[p].cmd /\ job'[p].seen = job[p].seen /\ job'[p].at = job[p].at
      BY <1>1, <2>2 DEF Job
    <3> QED BY <3>1 DEF JobChange
  <2> QED BY <1>15, <2>1, <2>2 DEF CleanupOne
<1>16. ASSUME NEW n \in Mail, BackOffEnds(n) \/ RetryIsDue(n) \/ LockGoesStale(n) \/ Expire(n)
       PROVE  JobChange(p, m)
  BY <1>2, <1>16 DEF BackOffEnds, RetryIsDue, LockGoesStale, Expire
<1>17. ASSUME NEW q \in Processes, BatchEnds(q) \/ CleanupEnds(q) \/ Dies(q) PROVE JobChange(p, m)
  BY <1>8, <1>17 DEF BatchEnds, CleanupEnds, Dies
<1>18. ASSUME NEW q \in Processes, NEW force, Analyze(q, Newest(Eligible(force), AnalyzeLimit))
       PROVE  JobChange(p, m)
  <2>1. Newest(Eligible(force), AnalyzeLimit) \in SUBSET Mail
    BY DEF Newest, Eligible
  <2> QED BY <1>4, <1>18, <2>1
<1>19. CASE CoreAnalyze
  BY <1>18, <1>19 DEF CoreAnalyze, Processes
<1>20. ASSUME NEW q \in Commands, CommandAnalyze(q) \/ \E n \in Mail : AnalyzeOne(q, n)
       PROVE  JobChange(p, m)
  <2>1. q \in Processes /\ \A n \in Mail : {n} \in SUBSET Mail
    BY DEF Processes
  <2> QED BY <1>4, <1>18, <1>20, <2>1 DEF CommandAnalyze, AnalyzeOne
<1>21. CASE UNCHANGED vars
  BY <1>2, <1>21 DEF vars
<1> QED BY <1>5, <1>9, <1>10, <1>11, <1>13, <1>14, <1>15, <1>16, <1>17, <1>19, <1>20, <1>21
        DEF Next, Processes

------------------------------------------------------------------------------
(* Given up when the attempts are used up: the failure that a process takes for *)
(* the last is by the attempts it read, and those only grow.                    *)

EarnedInv ==
    /\ \A p \in Processes, m \in Mail :
         /\ job[p].cmd = "analyze" => job[p].seen[m] <= row[m].attempts
         /\ job[p].at[m] = "condemn" => row[m].attempts >= MaxAttempts
    /\ PermanentIsEarned

LEMMA AttemptsGrow ==
    ASSUME TypeOK, NEW m \in Mail, RowChange(m)
    PROVE  /\ row'[m].attempts \in Nat /\ row[m].attempts \in Nat /\ row'[m].attempts >= row[m].attempts
           /\ Attempted(m) => row'[m].attempts = Capped(row[m].attempts + 1, MaxAttempts)
           /\ row'[m].permanent => row[m].permanent \/ \E p \in Processes : job[p].at[m] = "condemn"
<1>1. row[m] \in Row /\ row[m].attempts \in Nat /\ row[m].attempts <= MaxAttempts
  BY Constants DEF TypeOK, Row
<1>2. Attempted(m) => /\ row'[m].attempts = Capped(row[m].attempts + 1, MaxAttempts)
                      /\ row'[m].permanent = row[m].permanent
  BY <1>1, AttemptTyped DEF Attempted
<1>3. Capped(row[m].attempts + 1, MaxAttempts) \in Nat
      /\ Capped(row[m].attempts + 1, MaxAttempts) >= row[m].attempts
  BY <1>1, Constants DEF Capped
<1>4. CASE Attempted(m)
  BY <1>1, <1>2, <1>3, <1>4
<1>5. ASSUME NEW v \in Answers, NEW a \in Repaired(v), row'[m] = Stored(row[m], a)
      PROVE  row'[m].attempts = row[m].attempts /\ ~row'[m].permanent
  BY <1>1, <1>5, StoredTyped
<1>6. ASSUME row'[m] = [row[m] EXCEPT !.permanent = TRUE] \/ row'[m] = [row[m] EXCEPT !.cooling = FALSE]
      PROVE  row'[m].attempts = row[m].attempts
  BY <1>1, <1>6 DEF Row
<1>7. row'[m] = [row[m] EXCEPT !.cooling = FALSE] => row'[m].permanent = row[m].permanent
  BY <1>1 DEF Row
<1> QED BY <1>1, <1>2, <1>3, <1>4, <1>5, <1>6, <1>7 DEF RowChange

LEMMA EarnedStep == TypeOK /\ EarnedInv /\ [Next]_vars => EarnedInv'
<1> SUFFICES ASSUME TypeOK, EarnedInv, [Next]_vars PROVE EarnedInv'
  OBVIOUS
<1>1. ASSUME NEW m \in Mail
      PROVE  /\ row'[m].attempts \in Nat /\ row[m].attempts \in Nat /\ row'[m].attempts >= row[m].attempts
             /\ Attempted(m) => row'[m].attempts = Capped(row[m].attempts + 1, MaxAttempts)
             /\ row'[m].permanent => row[m].permanent \/ \E p \in Processes : job[p].at[m] = "condemn"
  BY RowChanges, AttemptsGrow
<1>2. ASSUME NEW p \in Processes, NEW m \in Mail, job'[p].cmd = "analyze"
      PROVE  job'[p].seen[m] <= row'[m].attempts
  <2>1. job[p].seen[m] \in Nat
    BY DEF TypeOK, Job
  <2>2. \/ job'[p].seen[m] \in {0, row[m].attempts}
        \/ job[p].cmd = "analyze" /\ job'[p].seen[m] = job[p].seen[m]
    BY <1>2, JobChanges DEF JobChange
  <2> QED BY <1>1, <2>1, <2>2 DEF EarnedInv
<1>3. ASSUME NEW p \in Processes, NEW m \in Mail, job'[p].at[m] = "condemn"
      PROVE  row'[m].attempts >= MaxAttempts
  <2>1. CASE job[p].at[m] = "condemn"
    BY <1>1, <2>1, Constants DEF EarnedInv
  <2>2. CASE job[p].cmd = "analyze" /\ LastAttempt(p, m) /\ Attempted(m)
    <3>1. job[p].seen[m] \in Nat /\ job[p].seen[m] <= row[m].attempts
          /\ job[p].seen[m] + 1 >= MaxAttempts
      BY <2>2 DEF TypeOK, Job, EarnedInv, LastAttempt
    <3>2. Capped(row[m].attempts + 1, MaxAttempts) >= MaxAttempts
      BY <1>1, <3>1, Constants DEF Capped
    <3> QED BY <1>1, <2>2, <3>2
  <2> QED BY <1>3, <2>1, <2>2, JobChanges DEF JobChange
<1>4. PermanentIsEarned'
  BY <1>1, Constants DEF EarnedInv, PermanentIsEarned
<1> QED BY <1>2, <1>3, <1>4 DEF EarnedInv

\* A message is marked as failed for good only after its last attempt was recorded, for
\* any number of processes that analyze the same messages at once
\* (analysis_cli.rs, database/analysis.rs).
THEOREM GivenUpWhenSpent == Spec => []PermanentIsEarned
<1>1. Init => EarnedInv
  <2> SUFFICES ASSUME Init PROVE EarnedInv
    OBVIOUS
  <2>1. \A p \in Processes, m \in Mail : job[p].cmd = "none" /\ job[p].at[m] = "none"
    BY DEF Init, NoJob
  <2>2. \A m \in Mail : ~row[m].permanent
    BY DEF Init
  <2> QED BY <2>1, <2>2 DEF EarnedInv, PermanentIsEarned
<1>2. EarnedInv => PermanentIsEarned
  BY DEF EarnedInv
<1> QED BY <1>1, <1>2, EarnedStep, TypingInit, TypingStep, PTL DEF Spec

------------------------------------------------------------------------------

\* The stored row of a phishing message keeps the spam and marketing answers of a verdict
\* the model gave, for every verdict that is possible (result_normalization.rs).
THEOREM ThreatsKept == Spec => []ThreatsKeepTheirVerdict
<1>1. Init => ThreatsKeepTheirVerdict
  BY DEF Init, ThreatsKeepTheirVerdict
<1>2. TypeOK /\ ThreatsKeepTheirVerdict /\ [Next]_vars => ThreatsKeepTheirVerdict'
  <2> SUFFICES ASSUME TypeOK, ThreatsKeepTheirVerdict, [Next]_vars, NEW m \in Mail, row'[m].phishing
               PROVE  \E v \in Answers : row'[m].spam = v.spam /\ row'[m].marketing = v.marketing
    BY DEF ThreatsKeepTheirVerdict
  <2>1. row[m] \in Row
    BY DEF TypeOK
  <2>2. ASSUME NEW v \in Answers, NEW a \in Repaired(v), row'[m] = Stored(row[m], a)
        PROVE  row'[m].spam = v.spam /\ row'[m].marketing = v.marketing
    BY <2>1, <2>2, StoredTyped
  <2>3. CASE /\ row'[m].phishing = row[m].phishing /\ row'[m].spam = row[m].spam
             /\ row'[m].marketing = row[m].marketing
    BY <2>3 DEF ThreatsKeepTheirVerdict
  <2>4. CASE Attempted(m)
    <3>1. PICK transient \in BOOLEAN : row'[m] = AttemptFailed(row[m], transient)
      BY <2>4 DEF Attempted
    <3> DEFINE r == AttemptFailed(row[m], transient)
    <3>2. r.phishing = row[m].phishing /\ r.spam = row[m].spam /\ r.marketing = row[m].marketing
      BY <2>1, AttemptTyped
    <3> HIDE DEF r
    <3>3. row'[m] = r
      BY <3>1 DEF r
    <3> QED BY <2>3, <3>2, <3>3
  <2>5. CASE row'[m] = [row[m] EXCEPT !.permanent = TRUE] \/ row'[m] = [row[m] EXCEPT !.cooling = FALSE]
    BY <2>1, <2>3, <2>5 DEF Row
  <2> QED BY <2>2, <2>3, <2>4, <2>5, RowChanges DEF RowChange
<1> QED BY <1>1, <1>2, TypingInit, TypingStep, PTL DEF Spec

------------------------------------------------------------------------------
(* The frontier queue: a process that is about to remove a row has stored the answer. *)

DoneInv == \A p \in Processes, m \in Mail : job[p].at[m] = "done" => m \in deep

\* A row leaves the frontier queue only when the frontier model's answer is stored, for
\* any number of commands that claim, reset and remove the same rows
\* (frontier_queue.rs, frontier_cli.rs).
THEOREM FrontierAnswersStored == Spec => FrontierRowsAreAnswered
<1>1. Init => DoneInv
  <2> SUFFICES ASSUME Init, NEW p \in Processes, NEW m \in Mail PROVE job[p].at[m] = "none"
    BY DEF DoneInv
  <2> QED BY DEF Init, NoJob
<1>2. [Next]_vars => deep \subseteq deep'
  <2>1. ASSUME NEW p \in Processes, NEW m \in Mail, AnalysisStep(p, m) \/ FrontierStep(p, m)
        PROVE  deep \subseteq deep'
    BY <2>1 DEF AnalysisStep, Answered, SaveFails, AnalysisFails, Condemn, FrontierStep,
                FrontierAnswered, FrontierFails, FrontierDone, FrontierRetry
  <2> QED BY <2>1 DEF Next, vars, CoreAnalyze, CommandAnalyze, AnalyzeOne, Analyze, ResetStale, Cleanup, Ask,
              BatchEnds, ClaimFrontier, AskFrontier, CleanupOne, CleanupEnds, Dies, BackOffEnds, RetryIsDue,
              LockGoesStale, Expire
<1>3. TypeOK /\ DoneInv /\ [Next]_vars => DoneInv'
  BY <1>2, JobChanges DEF DoneInv, JobChange
<1>4. TypeOK /\ DoneInv /\ [Next]_vars =>
        [\A m \in Mail : queue[m].status # "absent" /\ queue'[m].status = "absent" => m \in deep]_vars
  <2> SUFFICES ASSUME TypeOK, DoneInv, Next, NEW m \in Mail,
                      queue[m].status # "absent", queue'[m].status = "absent"
               PROVE  m \in deep
    OBVIOUS
  <2>1. queue \in [Mail -> Queue] /\ UNCHANGED queue => FALSE
    OBVIOUS
  <2>2. ASSUME NEW p \in Processes, NEW n \in Mail, AnalysisStep(p, n) \/ FrontierStep(p, n)
        PROVE  m \in deep
    <3>1. CASE FrontierDone(p, n)
      <4>1. job[p].at[n] = "done" /\ queue'[m] # queue[m]
        BY <3>1 DEF FrontierDone
      <4>2. m = n
        BY <3>1, <4>1 DEF FrontierDone, TypeOK
      <4> QED BY <4>1, <4>2 DEF DoneInv
    <3>2. CASE FrontierRetry(p, n)
      BY <3>2 DEF FrontierRetry, TypeOK, Queue
    <3> QED BY <2>2, <3>1, <3>2 DEF AnalysisStep, Answered, SaveFails, AnalysisFails, Condemn, FrontierStep,
                FrontierAnswered, FrontierFails
  <2>3. ASSUME NEW p \in Processes, ResetStale(p) \/ ClaimFrontier(p) PROVE FALSE
    <3>1. CASE ResetStale(p)
      <4>1. [queue[m] EXCEPT !.status = "failed", !.ready = TRUE, !.stale = FALSE].status = "failed"
        BY DEF TypeOK, Queue
      <4>2. queue'[m] \in {queue[m], [queue[m] EXCEPT !.status = "failed", !.ready = TRUE, !.stale = FALSE]}
        BY <3>1 DEF ResetStale
      <4> QED BY <4>1, <4>2
    <3>2. CASE ClaimFrontier(p)
      <4>1. CASE queue'[m] = queue[m]
        BY <4>1
      <4>2. ASSUME NEW n, queue'[m] = [status |-> "processing", attempts |-> n, ready |-> TRUE, stale |-> FALSE]
            PROVE  queue'[m].status = "processing"
        BY <4>2
      <4> QED BY <3>2, <4>1, <4>2 DEF ClaimFrontier
    <3> QED BY <2>3, <3>1, <3>2
  <2>4. ASSUME NEW n \in Mail, RetryIsDue(n) \/ LockGoesStale(n) PROVE FALSE
    BY <2>4 DEF RetryIsDue, LockGoesStale, TypeOK, Queue
  <2>5. CASE UNCHANGED queue
    BY <2>5
  <2> QED BY <2>2, <2>3, <2>4, <2>5 DEF Next, CoreAnalyze, CommandAnalyze, AnalyzeOne, Analyze, Cleanup, Ask,
              BatchEnds, AskFrontier, CleanupOne, CleanupEnds, Dies, BackOffEnds, Expire, Processes
<1> QED BY <1>1, <1>3, <1>4, TypingInit, TypingStep, PTL DEF Spec, FrontierRowsAreAnswered
==============================================================================
