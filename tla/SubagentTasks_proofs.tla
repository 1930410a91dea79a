------------------------- MODULE SubagentTasks_proofs -------------------------
(***************************************************************************)
(* Proofs about SubagentTasks and AgentRun, for any tasks, budgets,        *)
(* attempts, crashes and faults: typing; that a run gives one row of       *)
(* results and none is left running; that what was spent is counted; that  *)
(* a result which requires a review gets one; and that the rows of the     *)
(* tasks implement ExclusiveWork.                                          *)
(***************************************************************************)
EXTENDS SubagentTasks, WellFoundedInduction, TLAPS

LEMMA SmallestNat ==
    ASSUME NEW T \in SUBSET Nat, T # {}
    PROVE  \E x \in T : \A y \in T : x <= y
<1>1. PICK x \in T : \A y \in T : ~(<<y, x>> \in OpToRel(<, Nat))
  BY NatLessThanWellFounded, WFMin
<1>2. \A y \in T : ~(y < x)
  BY <1>1 DEF OpToRel
<1> QED BY <1>2

\* The CHOOSE of Restored is met when anything was saved.
LEMMA LastStep ==
    ASSUME NEW S \in SUBSET Steps, S # {}
    PROVE  LET s == CHOOSE x \in S : \A z \in S : z <= x IN s \in S /\ \A z \in S : z <= s
<1> DEFINE T == {MaxIterations - u : u \in S}
<1>1. MaxIterations \in Nat /\ \A u \in S : u \in Int /\ MaxIterations - u \in Nat
  BY SpecAssumption DEF Steps
<1>2. T \in SUBSET Nat /\ T # {}
  BY <1>1
<1>3. PICK x \in T : \A y \in T : x <= y
  BY <1>2, SmallestNat
<1>4. PICK u \in S : x = MaxIterations - u
  OBVIOUS
<1>5. \A w \in S : x <= MaxIterations - w
  BY <1>3
<1>6. \A w \in S : w <= u
  BY <1>1, <1>4, <1>5
<1> QED BY <1>6

LEMMA Constants ==
    /\ MaxIterations \in Nat /\ MaxLlmCalls \in Nat /\ MaxToolCalls \in Nat /\ FaultBudget \in Nat
    /\ RequestBudget \in Nat /\ CrashBudget \in Nat /\ MaxAttempts \in Nat
BY SpecAssumption, BudgetAssumption, AttemptAssumption

------------------------------------------------------------------------------
(* One attempt: typing, and what it knows of the row it works on. *)

AttemptTyped ==
    /\ run \in [Tasks -> Run] /\ strays \in [Tasks -> Nat] /\ at \in [Tasks -> Hands]
    /\ faults \in 0 .. FaultBudget

InLoop == {"call", "tool", "record", "save", "finish"}

\* The row r is running while an attempt h is in hand, completed until its answer is
\* read, and has given no result while it is running.
ResultInv(r, h) ==
    /\ h.phase = "insert" => r.status # "running"
    /\ h.phase \in InLoop \cup {"load"} => r.status = "running"
    /\ h.phase = "finished" => r.status = "completed" /\ r.results = 0
    /\ r.status = "running" => r.results = 0
    /\ r.results <= 1
    /\ r.results = 1 => r.status = "completed"

\* What earlier attempts may have spent, and this one has.
Earlier(r) == MaxLlmCalls * (r.attempts - 1)
SpendInv(r, h) ==
    /\ r.calls <= MaxLlmCalls * r.attempts
    /\ r.tools <= r.logged
    /\ h.phase = "load" => r.attempts >= 1 /\ r.calls <= Earlier(r)
    /\ h.phase \in InLoop \cup {"finished"} =>
         r.attempts >= 1 /\ r.calls <= Earlier(r) + h.llm /\ h.llm <= MaxLlmCalls
    /\ h.phase = "tool" =>
         1 <= h.pending /\ h.pending <= h.batch /\ r.tools + h.batch <= r.logged + h.pending
    /\ h.phase = "record" => r.tools + h.batch <= r.logged

Fits(r, h) == ResultInv(r, h) /\ SpendInv(r, h)
AttemptInv(t) == strays[t] = 0 /\ Fits(run[t], at[t])

\* The rows and attempts of the other tasks are left alone.
Apart(t) == \A o \in Tasks \ {t} : run'[o] = run[o] /\ strays'[o] = strays[o] /\ at'[o] = at[o]

LEMMA FaultTyped ==
    ASSUME faults \in 0 .. FaultBudget, Fault \/ NoFault
    PROVE  faults' \in 0 .. FaultBudget
BY Constants DEF Fault, NoFault

LEMMA HandFields ==
    ASSUME NEW h \in Hands
    PROVE  /\ h.step \in Nat /\ h.llm \in Nat /\ h.tools \in Nat /\ h.said \in Nat /\ h.pending \in Nat
           /\ h.batch \in Nat /\ h.attempt \in Nat /\ h.input \in Nat /\ h.review \in BOOLEAN
           /\ h.phase \in Phases
BY DEF Hands

LEMMA GotoTyped ==
    ASSUME at \in [Tasks -> Hands], NEW t \in Tasks, NEW phase \in Phases, Goto(t, phase)
    PROVE  /\ at' \in [Tasks -> Hands] /\ at'[t] = [at[t] EXCEPT !.phase = phase]
           /\ at'[t].phase = phase /\ at'[t].llm = at[t].llm /\ at'[t].input = at[t].input
           /\ at'[t].review = at[t].review /\ at'[t].attempt = at[t].attempt
           /\ \A o \in Tasks \ {t} : at'[o] = at[o]
<1>1. at[t] \in Hands /\ at' = [at EXCEPT ![t] = [at[t] EXCEPT !.phase = phase]]
  BY DEF Goto
<1>2. [at[t] EXCEPT !.phase = phase] \in Hands
  BY <1>1 DEF Hands
<1> QED BY <1>1, <1>2 DEF Hands

LEMMA RestoredTyped ==
    ASSUME AttemptTyped, NEW t \in Tasks
    PROVE  Restored(t) \in Nat
<1>1. SavedSteps(t) \in SUBSET Steps /\ run[t].saved \in [Steps -> Nat \cup {Unsaved}]
  BY DEF SavedSteps, AttemptTyped, Run
<1>2. CASE SavedSteps(t) # {}
  <2> DEFINE s == CHOOSE x \in SavedSteps(t) : \A z \in SavedSteps(t) : z <= x
  <2>1. s \in SavedSteps(t)
    BY <1>1, <1>2, LastStep
  <2>2. run[t].saved[s] \in Nat
    BY <1>1, <2>1 DEF SavedSteps
  <2> QED BY <1>2, <2>2 DEF Restored
<1> QED BY <1>2 DEF Restored

\* A step of the row changes one field or two of it.
LEMMA RunFields ==
    ASSUME AttemptTyped, NEW t \in Tasks
    PROVE  /\ run[t] \in Run /\ run[t].calls \in Nat /\ run[t].tools \in Nat /\ run[t].logged \in Nat
           /\ run[t].attempts \in Nat /\ run[t].results \in Nat /\ run[t].status \in RunStatus
           /\ run[t].saved \in [Steps -> Nat \cup {Unsaved}]
           /\ at[t] \in Hands /\ at[t].phase = Phase(t)
BY DEF AttemptTyped, Run, Phase

LEMMA RunSet ==
    ASSUME AttemptTyped, NEW t \in Tasks, NEW r \in Run, run' = [run EXCEPT ![t] = r]
    PROVE  run' \in [Tasks -> Run] /\ run'[t] = r /\ \A o \in Tasks \ {t} : run'[o] = run[o]
BY DEF AttemptTyped

LEMMA AtSet ==
    ASSUME AttemptTyped, NEW t \in Tasks, NEW h \in Hands, at' = [at EXCEPT ![t] = h]
    PROVE  at' \in [Tasks -> Hands] /\ at'[t] = h /\ \A o \in Tasks \ {t} : at'[o] = at[o]
BY DEF AttemptTyped

\* MaxLlmCalls * attempts, one attempt apart.
LEMMA OneMore ==
    ASSUME NEW n \in Nat
    PROVE  /\ MaxLlmCalls * (n + 1) = MaxLlmCalls * n + MaxLlmCalls
           /\ MaxLlmCalls * (n + 1 - 1) = MaxLlmCalls * n /\ MaxLlmCalls * n \in Nat
           /\ MaxLlmCalls * n = MaxLlmCalls * (n - 1) + MaxLlmCalls
           /\ MaxLlmCalls * 0 = 0
BY Constants

Kept(t) == AttemptTyped' /\ Apart(t) /\ AttemptInv(t)'

LEMMA Keeps ==
    ASSUME AttemptTyped, NEW t \in Tasks, NEW r \in Run, NEW h \in Hands, strays[t] = 0,
           run' = [run EXCEPT ![t] = r], at' = [at EXCEPT ![t] = h], strays' = strays,
           Fault \/ NoFault, Fits(r, h)
    PROVE  Kept(t)
<1>1. faults' \in 0 .. FaultBudget
  BY FaultTyped DEF AttemptTyped
<1> QED BY <1>1, RunSet, AtSet DEF AttemptTyped, Kept, Apart, AttemptInv

\* The attempt goes on and the row is as it was, or it stops with another status.
LEMMA Moves ==
    ASSUME AttemptTyped, NEW t \in Tasks, AttemptInv(t), strays' = strays, Fault \/ NoFault,
           NEW phase \in Phases, Goto(t, phase),
           NEW status \in RunStatus, run' = [run EXCEPT ![t].status = status],
           Fits([run[t] EXCEPT !.status = status], [at[t] EXCEPT !.phase = phase])
    PROVE  Kept(t)
<1>1. [run[t] EXCEPT !.status = status] \in Run
  BY RunFields DEF Run
<1>2. [at[t] EXCEPT !.phase = phase] \in Hands
  BY RunFields DEF Hands
<1>3. /\ run' = [run EXCEPT ![t] = [run[t] EXCEPT !.status = status]]
      /\ at' = [at EXCEPT ![t] = [at[t] EXCEPT !.phase = phase]]
  BY DEF Goto
<1> QED BY <1>1, <1>2, <1>3, Keeps DEF AttemptInv

\* An attempt that is given up asks nothing of its row but the totals.
LEMMA GivesUp ==
    ASSUME AttemptTyped, NEW t \in Tasks, AttemptInv(t), strays' = strays, Fault \/ NoFault,
           Goto(t, "error"), NEW status \in {"failed", "timed_out"},
           run' = [run EXCEPT ![t].status = status] \/ run' = run,
           run' # run => run[t].results = 0
    PROVE  Kept(t)
<1>1. run[t] \in Run /\ at[t] \in Hands
  BY RunFields
<1>2. ASSUME NEW st \in RunStatus, st = run[t].status \/ (st = status /\ run[t].results = 0)
      PROVE  Fits([run[t] EXCEPT !.status = st], [at[t] EXCEPT !.phase = "error"])
  <2> DEFINE r == [run[t] EXCEPT !.status = st]
             h == [at[t] EXCEPT !.phase = "error"]
  <2>1. /\ r.status = st /\ r.calls = run[t].calls /\ r.attempts = run[t].attempts
        /\ r.tools = run[t].tools /\ r.logged = run[t].logged /\ r.results = run[t].results
        /\ h.phase = "error"
    BY <1>1 DEF Run, Hands
  <2> HIDE DEF r, h
  <2>2. Fits(r, h)
    BY <1>2, <2>1 DEF Fits, ResultInv, SpendInv, AttemptInv, InLoop, Earlier
  <2> QED BY <2>2 DEF r, h
<1>3. /\ run[t].status \in RunStatus /\ status \in RunStatus /\ "error" \in Phases
  BY RunFields DEF RunStatus, Phases, RunPhases
<1>4. CASE run' = run
  <2>1. run' = [run EXCEPT ![t].status = run[t].status]
    BY <1>1, <1>4 DEF AttemptTyped, Run
  <2> QED BY <1>2, <1>3, <2>1, Moves
<1>5. CASE run' = [run EXCEPT ![t].status = status] /\ run' # run
  BY <1>2, <1>3, <1>5, Moves
<1> QED BY <1>4, <1>5

LEMMA BeginKeeps ==
    ASSUME AttemptTyped, NEW t \in Tasks, AttemptInv(t),
           FindRun(t) \/ InsertRun(t) \/ NotBegun(t) \/ Load(t) \/ LoadFails(t)
    PROVE  Kept(t)
<1>1. /\ run[t] \in Run /\ at[t] \in Hands /\ strays[t] = 0 /\ Fits(run[t], at[t])
      /\ run[t].attempts \in Nat /\ run[t].calls \in Nat /\ run[t].tools \in Nat
      /\ run[t].logged \in Nat /\ run[t].results \in Nat
  BY RunFields DEF AttemptInv
<1>2. CASE NotBegun(t) \/ LoadFails(t)
  BY <1>2, GivesUp DEF NotBegun, LoadFails
<1>3. CASE FindRun(t)
  <2>1. CASE run[t].status = "running" /\ JoinRun(t)
    <3> DEFINE r == [run[t] EXCEPT !.attempts = @ + 1]
               h == [at[t] EXCEPT !.phase = "load"]
    <3>1. r \in Run /\ h \in Hands
      BY <1>1 DEF Run, Hands, Phases, RunPhases
    <3>2. /\ r.status = run[t].status /\ r.calls = run[t].calls /\ r.attempts = run[t].attempts + 1
          /\ r.tools = run[t].tools /\ r.logged = run[t].logged /\ r.results = run[t].results
          /\ h.phase = "load"
      BY <1>1 DEF Run, Hands
    <3>3. run' = [run EXCEPT ![t] = r] /\ at' = [at EXCEPT ![t] = h] /\ strays' = strays /\ NoFault
      BY <1>3, <2>1 DEF FindRun, JoinRun, Goto
    <3> HIDE DEF r, h
    <3>4. Fits(r, h)
      BY <1>1, <2>1, <3>2, OneMore, Constants DEF Fits, ResultInv, SpendInv, InLoop, Earlier
    <3> QED BY <1>1, <3>1, <3>3, <3>4, Keeps
  <2>2. CASE run[t].status # "running" /\ Goto(t, "insert") /\ UNCHANGED run
    <3> DEFINE h == [at[t] EXCEPT !.phase = "insert"]
    <3>1. h \in Hands /\ h.phase = "insert"
      BY <1>1 DEF Hands, Phases, RunPhases
    <3>2. run' = [run EXCEPT ![t] = run[t]] /\ at' = [at EXCEPT ![t] = h] /\ strays' = strays /\ NoFault
      BY <1>3, <2>2 DEF FindRun, Goto, AttemptTyped
    <3> HIDE DEF h
    <3>3. Fits(run[t], h)
      BY <1>1, <2>2, <3>1 DEF Fits, ResultInv, SpendInv, InLoop, Earlier
    <3> QED BY <1>1, <3>1, <3>2, <3>3, Keeps
  <2> QED BY <1>3, <2>1, <2>2 DEF FindRun
<1>4. CASE InsertRun(t)
  <2> DEFINE r == [FreshRun EXCEPT !.attempts = 1]
             h == [at[t] EXCEPT !.phase = "load"]
  <2>1. /\ r.status = "running" /\ r.calls = 0 /\ r.attempts = 1
        /\ r.tools = 0 /\ r.logged = 0 /\ r.results = 0 /\ h.phase = "load"
    BY <1>1 DEF FreshRun, Hands
  <2>2. r \in Run /\ h \in Hands
    BY <1>1 DEF FreshRun, Run, RunStatus, Hands, Phases, RunPhases
  <2>3. strays' = strays
    <3>1. run[t].status # "running" /\ strays' = [strays EXCEPT ![t] = @ + 0]
      BY <1>1, <1>4 DEF InsertRun, Fits, ResultInv, Phase
    <3> QED BY <1>1, <3>1 DEF AttemptTyped
  <2>4. run' = [run EXCEPT ![t] = r] /\ at' = [at EXCEPT ![t] = h] /\ NoFault
    BY <1>4 DEF InsertRun, Goto
  <2> HIDE DEF r, h
  <2>5. Fits(r, h)
    <3>1. MaxLlmCalls * 1 >= 0 /\ MaxLlmCalls * (1 - 1) = 0
      BY Constants
    <3> QED BY <2>1, <3>1 DEF Fits, ResultInv, SpendInv, InLoop, Earlier
  <2> QED BY <1>1, <2>2, <2>3, <2>4, <2>5, Keeps
<1>5. CASE Load(t)
  <2> DEFINE h == [at[t] EXCEPT !.phase = "call", !.step = 0, !.llm = 0, !.tools = 0, !.said = Restored(t)]
  <2>1. Restored(t) \in Nat
    BY RestoredTyped
  <2>2. h \in Hands /\ h.phase = "call" /\ h.llm = 0
    BY <1>1, <2>1 DEF Hands, Phases, RunPhases, LoopPhases
  <2>3. run' = [run EXCEPT ![t] = run[t]] /\ at' = [at EXCEPT ![t] = h] /\ strays' = strays /\ NoFault
    BY <1>5 DEF Load, AttemptTyped
  <2> HIDE DEF h
  <2>4. Fits(run[t], h)
    <3>1. at[t].phase = "load" /\ run[t].attempts - 1 \in Nat
      BY <1>1, <1>5 DEF Load, Phase, Fits, SpendInv
    <3>2. Earlier(run[t]) \in Nat
      BY <3>1, OneMore DEF Earlier
    <3> QED BY <1>1, <2>2, <3>1, <3>2, Constants DEF Fits, ResultInv, SpendInv, InLoop
  <2> QED BY <1>1, <2>2, <2>3, <2>4, Keeps
<1> QED BY <1>2, <1>3, <1>4, <1>5

LEMMA CallKeeps ==
    ASSUME AttemptTyped, NEW t \in Tasks, AttemptInv(t), Call(t)
    PROVE  Kept(t)
<1>1. /\ run[t] \in Run /\ at[t] \in Hands /\ strays[t] = 0 /\ Fits(run[t], at[t])
      /\ run[t].attempts \in Nat /\ run[t].calls \in Nat /\ run[t].tools \in Nat
      /\ run[t].logged \in Nat /\ run[t].results \in Nat /\ at[t].llm \in Nat
      /\ at[t].phase = "call" /\ at[t].llm < MaxLlmCalls /\ strays' = strays /\ (Fault \/ NoFault)
  BY RunFields, HandFields, Constants DEF AttemptInv, Call, Spent, Phase
<1>2. /\ run[t].status = "running" /\ run[t].results = 0 /\ run[t].tools <= run[t].logged
      /\ run[t].attempts >= 1 /\ run[t].calls <= Earlier(run[t]) + at[t].llm
      /\ Earlier(run[t]) \in Nat
      /\ MaxLlmCalls * run[t].attempts = Earlier(run[t]) + MaxLlmCalls
  <2>1. /\ run[t].status = "running" /\ run[t].results = 0 /\ run[t].tools <= run[t].logged
        /\ run[t].attempts >= 1 /\ run[t].calls <= Earlier(run[t]) + at[t].llm
    BY <1>1 DEF Fits, ResultInv, SpendInv, InLoop
  <2>2. run[t].attempts - 1 \in Nat
    BY <1>1, <2>1
  <2> QED BY <1>1, <2>1, <2>2, OneMore DEF Earlier
<1> DEFINE r == [run[t] EXCEPT !.calls = @ + 1]
<1>3. /\ r \in Run /\ r.status = "running" /\ r.calls = run[t].calls + 1
      /\ r.attempts = run[t].attempts /\ r.tools = run[t].tools /\ r.logged = run[t].logged
      /\ r.results = 0
  BY <1>1, <1>2 DEF Run
<1>4. ASSUME NEW h \in Hands, h.phase \in {"call", "save", "finish", "tool"}, h.llm = at[t].llm + 1,
             h.phase = "tool" => h.pending = h.batch /\ 1 <= h.batch,
             at' = [at EXCEPT ![t] = h], run' = [run EXCEPT ![t] = r]
      PROVE  Kept(t)
  <2> HIDE DEF r
  <2>1. h.pending \in Nat /\ h.batch \in Nat
    BY HandFields
  <2>2. Earlier(r) = Earlier(run[t]) /\ MaxLlmCalls * r.attempts = MaxLlmCalls * run[t].attempts
    BY <1>3 DEF Earlier
  <2>3. ResultInv(r, h)
    BY <1>3, <1>4 DEF ResultInv, InLoop
  <2>4. SpendInv(r, h)
    BY <1>1, <1>2, <1>3, <1>4, <2>1, <2>2, Constants DEF SpendInv, InLoop
  <2> QED BY <1>1, <1>3, <1>4, <2>3, <2>4, Keeps DEF Fits
<1>5. ASSUME NEW status \in {"running", "failed", "timed_out"}, Goto(t, "error"),
             run' = [run EXCEPT ![t].calls = @ + 1, ![t].status = status]
      PROVE  Kept(t)
  <2> DEFINE q == [run[t] EXCEPT !.calls = @ + 1, !.status = status]
             h == [at[t] EXCEPT !.phase = "error"]
  <2>1. /\ q \in Run /\ q.status = status /\ q.calls = run[t].calls + 1
        /\ q.attempts = run[t].attempts /\ q.tools = run[t].tools /\ q.logged = run[t].logged
        /\ q.results = 0
    <3>1. run[t].calls + 1 \in Nat /\ status \in RunStatus
      BY <1>1 DEF RunStatus
    <3> QED BY <1>1, <1>2, <3>1 DEF Run
  <2>2. h \in Hands /\ h.phase = "error"
    BY <1>1 DEF Hands, Phases, RunPhases
  <2>3. run' = [run EXCEPT ![t] = q] /\ at' = [at EXCEPT ![t] = h]
    BY <1>5 DEF Goto
  <2> HIDE DEF q, h
  <2>4. q.calls <= MaxLlmCalls * q.attempts
    BY <1>1, <1>2, <2>1, Constants
  <2>5. Fits(q, h)
    BY <1>1, <1>2, <2>1, <2>2, <2>4 DEF Fits, ResultInv, SpendInv, InLoop
  <2> QED BY <1>1, <2>1, <2>2, <2>3, <2>5, Keeps
<1>6. /\ at[t].said + 1 \in Nat /\ at[t].step + 1 \in Nat /\ at[t].llm + 1 \in Nat
      /\ "call" \in Phases /\ "save" \in Phases /\ "finish" \in Phases /\ "tool" \in Phases
  BY <1>1, HandFields DEF Phases, RunPhases, LoopPhases
<1>7. ASSUME NEW n \in 1 .. MaxToolCalls,
             at' = [at EXCEPT ![t].phase = "tool", ![t].llm = @ + 1, ![t].pending = n, ![t].batch = n],
             run' = [run EXCEPT ![t] = r]
      PROVE  Kept(t)
  <2> DEFINE h == [at[t] EXCEPT !.phase = "tool", !.llm = @ + 1, !.pending = n, !.batch = n]
  <2>1. n \in Nat /\ n >= 1
    BY Constants
  <2>2. h \in Hands /\ h.phase = "tool" /\ h.llm = at[t].llm + 1 /\ h.pending = n /\ h.batch = n
    BY <1>1, <1>6, <2>1 DEF Hands
  <2>3. at' = [at EXCEPT ![t] = h]
    BY <1>7
  <2> HIDE DEF h, r
  <2> QED BY <1>4, <1>7, <2>1, <2>2, <2>3
<1>8. CASE AnswerTools(t)
  BY <1>5, <1>7, <1>8 DEF AnswerTools
<1>9. CASE AnswerScratchpad(t)
  <2>1. CASE at' = Appended(t) /\ run' = [run EXCEPT ![t].calls = @ + 1]
    <3> DEFINE h == [at[t] EXCEPT !.phase = "save", !.said = @ + 1, !.llm = @ + 1]
    <3>1. h \in Hands /\ h.phase = "save" /\ h.llm = at[t].llm + 1
      BY <1>1, <1>6 DEF Hands
    <3>2. at' = [at EXCEPT ![t] = h] /\ run' = [run EXCEPT ![t] = r]
      BY <2>1 DEF Appended
    <3> HIDE DEF h, r
    <3> QED BY <1>4, <3>1, <3>2
  <2> QED BY <1>5, <1>9, <2>1 DEF AnswerScratchpad
<1>10. CASE AnswerInvalid(t)
  <2> DEFINE h == [at[t] EXCEPT !.phase = "call", !.step = @ + 1, !.said = @ + 1, !.llm = @ + 1]
  <2>1. h \in Hands /\ h.phase = "call" /\ h.llm = at[t].llm + 1
    BY <1>1, <1>6 DEF Hands
  <2>2. at' = [at EXCEPT ![t] = h]
    BY <1>10 DEF AnswerInvalid, NextStep, AttemptTyped
  <2>3. run' = [run EXCEPT ![t] = r]
    BY <1>10 DEF AnswerInvalid
  <2> HIDE DEF h, r
  <2> QED BY <1>4, <2>1, <2>2, <2>3
<1>11. CASE AnswerFinal(t)
  <2> DEFINE h == [at[t] EXCEPT !.phase = "finish", !.llm = @ + 1]
  <2>1. h \in Hands /\ h.phase = "finish" /\ h.llm = at[t].llm + 1
    BY <1>1, <1>6 DEF Hands
  <2>2. at' = [at EXCEPT ![t] = h] /\ run' = [run EXCEPT ![t] = r]
    BY <1>11 DEF AnswerFinal
  <2> HIDE DEF h, r
  <2> QED BY <1>4, <2>1, <2>2
<1>12. CASE AnswerLost(t)
  BY <1>5, <1>12 DEF AnswerLost
<1> QED BY <1>8, <1>9, <1>10, <1>11, <1>12 DEF Call, Answer

LEMMA LoopKeeps ==
    ASSUME AttemptTyped, NEW t \in Tasks, AttemptInv(t),
           GiveUp(t) \/ Tool(t) \/ RecordTools(t) \/ Save(t) \/ Finish(t) \/ LoopFails(t) \/ Timeout(t)
    PROVE  Kept(t)
<1>1. /\ run[t] \in Run /\ at[t] \in Hands /\ strays[t] = 0 /\ Fits(run[t], at[t])
      /\ run[t].attempts \in Nat /\ run[t].calls \in Nat /\ run[t].tools \in Nat
      /\ run[t].logged \in Nat /\ run[t].results \in Nat /\ at[t].llm \in Nat
      /\ at[t].phase \in LoopPhases /\ at[t].phase = Phase(t) /\ strays' = strays
  BY RunFields, HandFields DEF AttemptInv, GiveUp, Tool, RecordTools, Save, Finish, LoopFails, Timeout, LoopPhases
<1>2. /\ at[t].phase # "finished" => run[t].status = "running" /\ run[t].results = 0
      /\ run[t].results = 0
      /\ run[t].tools <= run[t].logged /\ run[t].attempts >= 1
      /\ run[t].calls <= MaxLlmCalls * run[t].attempts
      /\ run[t].calls <= Earlier(run[t]) + at[t].llm /\ at[t].llm <= MaxLlmCalls
  BY <1>1 DEF Fits, ResultInv, SpendInv, InLoop, LoopPhases
<1>3. /\ at[t].tools \in Nat /\ at[t].said \in Nat /\ at[t].step \in Nat
      /\ at[t].pending \in Nat /\ at[t].batch \in Nat
      /\ at[t].said + 1 \in Nat /\ at[t].step + 1 \in Nat
      /\ "call" \in Phases /\ "save" \in Phases /\ "record" \in Phases /\ "tool" \in Phases
  BY <1>1, HandFields DEF Phases, RunPhases, LoopPhases
<1>4. CASE GiveUp(t) \/ LoopFails(t) \/ Timeout(t)
  BY <1>1, <1>2, <1>4, GivesUp DEF GiveUp, LoopFails, Timeout, End
<1>5. CASE Tool(t)
  <2> DEFINE r == [run[t] EXCEPT !.logged = @ + 1]
             h == [at[t] EXCEPT !.pending = @ - 1, !.tools = @ + 1,
                                !.phase = IF at[t].pending = 1 THEN "record" ELSE "tool"]
  <2>1. /\ 1 <= at[t].pending /\ at[t].pending <= at[t].batch /\ at[t].phase = "tool"
        /\ run[t].tools + at[t].batch <= run[t].logged + at[t].pending
    BY <1>1, <1>5 DEF Tool, Fits, SpendInv
  <2>2. /\ r \in Run /\ r.status = "running" /\ r.calls = run[t].calls
        /\ r.attempts = run[t].attempts /\ r.tools = run[t].tools /\ r.logged = run[t].logged + 1
        /\ r.results = 0
    BY <1>1, <1>2, <2>1 DEF Run
  <2>3. /\ h \in Hands /\ h.phase = IF at[t].pending = 1 THEN "record" ELSE "tool"
        /\ h.llm = at[t].llm /\ h.pending = at[t].pending - 1 /\ h.batch = at[t].batch
    <3>1. at[t].pending - 1 \in Nat /\ at[t].tools + 1 \in Nat
      BY <1>3, <2>1
    <3> QED BY <1>1, <1>3, <3>1 DEF Hands
  <2>4. run' = [run EXCEPT ![t] = r] /\ at' = [at EXCEPT ![t] = h] /\ NoFault
    BY <1>5 DEF Tool
  <2> HIDE DEF r, h
  <2>5. Fits(r, h)
    BY <1>1, <1>2, <1>3, <2>1, <2>2, <2>3 DEF Fits, ResultInv, SpendInv, InLoop, Earlier
  <2> QED BY <1>1, <2>2, <2>3, <2>4, <2>5, Keeps
<1>6. CASE RecordTools(t)
  <2> DEFINE r == [run[t] EXCEPT !.tools = @ + at[t].batch]
             h == [at[t] EXCEPT !.phase = "save", !.said = @ + 1]
  <2>1. at[t].phase = "record" /\ run[t].tools + at[t].batch <= run[t].logged
    BY <1>1, <1>6 DEF RecordTools, Fits, SpendInv
  <2>2. /\ r \in Run /\ r.status = "running" /\ r.calls = run[t].calls
        /\ r.attempts = run[t].attempts /\ r.tools = run[t].tools + at[t].batch
        /\ r.logged = run[t].logged /\ r.results = 0
    BY <1>1, <1>2, <1>3, <2>1 DEF Run
  <2>3. h \in Hands /\ h.phase = "save" /\ h.llm = at[t].llm
    BY <1>1, <1>3 DEF Hands
  <2>4. run' = [run EXCEPT ![t] = r] /\ at' = [at EXCEPT ![t] = h] /\ NoFault
    BY <1>6 DEF RecordTools
  <2> HIDE DEF r, h
  <2>5. Fits(r, h)
    BY <1>1, <1>2, <1>3, <2>1, <2>2, <2>3 DEF Fits, ResultInv, SpendInv, InLoop, Earlier
  <2> QED BY <1>1, <2>2, <2>3, <2>4, <2>5, Keeps
<1>7. CASE Save(t)
  <2> DEFINE h == [at[t] EXCEPT !.phase = "call", !.step = @ + 1]
  <2>1. h \in Hands /\ h.phase = "call" /\ h.llm = at[t].llm
    BY <1>1, <1>3 DEF Hands
  <2>2. at' = [at EXCEPT ![t] = h] /\ (Fault \/ NoFault)
    BY <1>7 DEF Save, NextStep
  <2> HIDE DEF h
  <2>3. ASSUME NEW r \in Run, run' = [run EXCEPT ![t] = r], r.status = "running", r.calls = run[t].calls,
               r.attempts = run[t].attempts, r.tools = run[t].tools, r.logged = run[t].logged, r.results = 0
        PROVE  Kept(t)
    <3>1. Fits(r, h)
      BY <1>1, <1>2, <2>1, <2>3 DEF Fits, ResultInv, SpendInv, InLoop, Earlier
    <3> QED BY <1>1, <2>1, <2>2, <2>3, <3>1, Keeps
  <2>4. at[t].phase = "save" /\ run[t].status = "running"
    BY <1>1, <1>2, <1>7 DEF Save
  <2>5. CASE UNCHANGED run
    <3>1. run' = [run EXCEPT ![t] = run[t]]
      BY <2>5 DEF AttemptTyped
    <3> QED BY <1>1, <1>2, <2>3, <2>4, <3>1
  <2>6. CASE run' = [run EXCEPT ![t].saved[at[t].step] = at[t].said]
    <3> DEFINE saved == [run[t].saved EXCEPT ![at[t].step] = at[t].said]
               r == [run[t] EXCEPT !.saved = saved]
    <3>1. saved \in [Steps -> Nat \cup {Unsaved}]
      BY <1>3, RunFields
    <3>2. run' = [run EXCEPT ![t] = r]
      BY <2>6
    <3> HIDE DEF saved
    <3>3. /\ r \in Run /\ r.status = "running" /\ r.calls = run[t].calls
          /\ r.attempts = run[t].attempts /\ r.tools = run[t].tools
          /\ r.logged = run[t].logged /\ r.results = 0
      BY <1>1, <1>2, <2>4, <3>1 DEF Run
    <3> HIDE DEF r
    <3> QED BY <2>3, <3>2, <3>3
  <2> QED BY <1>7, <2>5, <2>6 DEF Save
<1>8. CASE Finish(t)
  <2> DEFINE r == [run[t] EXCEPT !.status = "completed"]
             h == [at[t] EXCEPT !.phase = "finished"]
  <2>1. /\ r.status = "completed" /\ r.calls = run[t].calls
        /\ r.attempts = run[t].attempts /\ r.tools = run[t].tools
        /\ r.logged = run[t].logged /\ r.results = 0
    BY <1>1, <1>2, <1>8 DEF Run
  <2>2. h.phase = "finished" /\ h.llm = at[t].llm
    BY <1>1 DEF Hands
  <2>3. Goto(t, "finished") /\ run' = [run EXCEPT ![t].status = "completed"] /\ NoFault
    BY <1>8 DEF Finish, End
  <2>4. "finished" \in Phases /\ "completed" \in RunStatus
    BY DEF Phases, RunPhases, LoopPhases, RunStatus
  <2> HIDE DEF r, h
  <2>5. Fits(r, h)
    BY <1>1, <1>2, <2>1, <2>2 DEF Fits, ResultInv, SpendInv, InLoop, Earlier
  <2> QED BY <1>1, <2>3, <2>4, <2>5, Moves DEF r, h
<1> QED BY <1>4, <1>5, <1>6, <1>7, <1>8

\* No step of the harness leaves a row that the rest of the attempt cannot go on from.
LEMMA RunKeeps ==
    ASSUME AttemptTyped, NEW t \in Tasks, AttemptInv(t), RunStep(t)
    PROVE  Kept(t)
BY BeginKeeps, CallKeeps, LoopKeeps DEF RunStep

------------------------------------------------------------------------------
(* The task around the attempt. *)

\* In these phases an attempt asks nothing of the row in agent_runs.
Quiet == {"idle", "start", "begin", "error", "mark", "reviewTask", "reviewWork", "close", "retry"}

LEMMA QuietFits ==
    ASSUME NEW r, NEW h, NEW g, Fits(r, h), g.phase \in Quiet
    PROVE  Fits(r, g)
BY DEF Fits, ResultInv, SpendInv, InLoop, Quiet

LEMMA GoesQuiet ==
    ASSUME AttemptTyped, NEW t \in Tasks, AttemptInv(t), UNCHANGED <<run, strays>>, Fault \/ NoFault,
           NEW phase \in Quiet, Goto(t, phase)
    PROVE  Kept(t)
<1> DEFINE h == [at[t] EXCEPT !.phase = phase]
<1>1. run[t] \in Run /\ at[t] \in Hands /\ Fits(run[t], at[t]) /\ strays[t] = 0 /\ strays' = strays
  BY RunFields DEF AttemptInv
<1>2. phase \in Phases
  BY DEF Quiet, Phases, RunPhases, LoopPhases
<1>3. h \in Hands /\ h.phase = phase
  BY <1>1, <1>2 DEF Hands
<1>4. run' = [run EXCEPT ![t] = run[t]] /\ at' = [at EXCEPT ![t] = h]
  BY DEF Goto, AttemptTyped
<1> HIDE DEF h
<1>5. Fits(run[t], h)
  BY <1>1, <1>3, QuietFits
<1> QED BY <1>1, <1>3, <1>4, <1>5, Keeps

LEMMA GoesIdle ==
    ASSUME AttemptTyped, NEW t \in Tasks, AttemptInv(t), UNCHANGED <<run, strays>>, NoFault,
           at' = [at EXCEPT ![t] = Idle]
    PROVE  Kept(t)
<1>1. run[t] \in Run /\ Fits(run[t], at[t]) /\ strays[t] = 0 /\ strays' = strays
  BY RunFields DEF AttemptInv
<1>2. Idle \in Hands /\ Idle.phase \in Quiet
  BY DEF Idle, Hands, Phases, Quiet
<1>3. run' = [run EXCEPT ![t] = run[t]]
  BY DEF AttemptTyped
<1> QED BY <1>1, <1>2, <1>3, QuietFits, Keeps

LEMMA ResultKeeps ==
    ASSUME AttemptTyped, NEW t \in Tasks, AttemptInv(t), InsertResult(t)
    PROVE  Kept(t)
<1>1. PICK review \in BOOLEAN : at' = [at EXCEPT ![t].phase = "mark", ![t].review = review]
  BY DEF InsertResult
<1> DEFINE r == [run[t] EXCEPT !.results = @ + 1]
           h == [at[t] EXCEPT !.phase = "mark", !.review = review]
<1>2. /\ run[t] \in Run /\ at[t] \in Hands /\ strays[t] = 0 /\ Fits(run[t], at[t])
      /\ run[t].status = "completed" /\ run[t].results = 0 /\ strays' = strays /\ NoFault
  BY RunFields DEF AttemptInv, InsertResult, Fits, ResultInv, Phase
<1>3. /\ r \in Run /\ r.status = "completed" /\ r.results = 1 /\ r.calls = run[t].calls
      /\ r.attempts = run[t].attempts /\ r.tools = run[t].tools /\ r.logged = run[t].logged
  BY <1>2 DEF Run
<1>4. h \in Hands /\ h.phase = "mark"
  BY <1>2 DEF Hands, Phases
<1>5. run' = [run EXCEPT ![t] = r] /\ at' = [at EXCEPT ![t] = h]
  BY <1>1 DEF InsertResult
<1> HIDE DEF r, h
<1>6. Fits(r, h)
  BY <1>2, <1>3, <1>4 DEF Fits, ResultInv, SpendInv, InLoop
<1> QED BY <1>2, <1>3, <1>4, <1>5, <1>6, Keeps

LEMMA TaskStepKeeps ==
    ASSUME AttemptTyped, NEW t \in Tasks, AttemptInv(t), TaskStep(t)
    PROVE  Kept(t)
<1>1. CASE Start(t)
  BY <1>1, GoesQuiet DEF Start, Prepared, Unprepared, Unrecorded, Quiet
<1>2. CASE MarkCompleted(t)
  <2>1. (IF at[t].review /\ t \in Asked THEN "reviewTask" ELSE "close") \in Quiet
    BY DEF Quiet
  <2> QED BY <1>2, <2>1, GoesQuiet DEF MarkCompleted
<1>3. CASE ReviewTask(t) \/ ReviewWork(t) \/ MarkFailed(t) \/ StoreFails(t)
  <2>1. "reviewWork" \in Quiet /\ "close" \in Quiet /\ "retry" \in Quiet
    BY DEF Quiet
  <2> QED BY <1>3, <2>1, GoesQuiet DEF ReviewTask, ReviewWork, MarkFailed, StoreFails
<1>4. CASE CloseWork(t) \/ RetryWork(t)
  BY <1>4, GoesIdle DEF CloseWork, RetryWork
<1> QED BY <1>1, <1>2, <1>3, <1>4, ResultKeeps, RunKeeps DEF TaskStep

TaskTyped ==
    /\ row \in [Tasks -> Row] /\ task \in [Tasks -> TaskStatus]
    /\ result \in [Tasks -> [count : Nat, flagged : Nat]]
    /\ payload \in [Tasks -> Nat] /\ judged \in [Asked -> Nat] /\ swallowed \subseteq Asked
    /\ up \in BOOLEAN /\ requests \in 0 .. RequestBudget /\ crashes \in 0 .. CrashBudget

LEMMA Types == TypeOK <=> AttemptTyped /\ TaskTyped
BY DEF TypeOK, AttemptTyped, TaskTyped

LEMMA Reviews == \A t \in Asked : t \in Tasks /\ ReviewOf(t) \in Tasks \ Asked
BY TaskAssumption

LEMMA RowTypes ==
    ASSUME NEW r \in Row, NEW w \in Runtimes, NEW n
    PROVE  /\ Enqueued(r) \in Row /\ Claimed(r, w) \in Row /\ Completed(r) \in Row
           /\ AfterFailure(r, n) \in Row /\ MadeRetryable(r) \in Row /\ r.attempt + 1 \in Nat
<1>1. r.attempt \in Nat /\ r.attempt + 1 \in Nat
  BY DEF Row
<1>2. Enqueued(r) \in Row
  BY DEF Enqueued, Row, Status
<1>3. Claimed(r, w) \in Row
  BY <1>1 DEF Claimed, Row, Status
<1>4. Completed(r) \in Row
  BY DEF Completed, Row, Status
<1>5. AfterFailure(r, n) \in Row
  BY DEF AfterFailure, Row, Status
<1>6. MadeRetryable(r) \in Row
  BY DEF MadeRetryable, Row, Status
<1> QED BY <1>1, <1>2, <1>3, <1>4, <1>5, <1>6

LEMMA TaskStepTyped ==
    ASSUME AttemptTyped, TaskTyped, NEW t \in Tasks, TaskStep(t), Phase(t) = "reviewWork" => t \in Asked
    PROVE  TaskTyped'
<1>1. /\ up' = up /\ requests' = requests /\ crashes' = crashes
      /\ row[t] \in Row /\ at[t] \in Hands /\ at[t].input \in Nat
      /\ result[t] \in [count : Nat, flagged : Nat]
  BY RunFields, HandFields DEF TaskStep, TaskTyped
<1>2. CASE Start(t) \/ MarkCompleted(t) \/ MarkFailed(t)
  BY <1>1, <1>2 DEF Start, Unrecorded, MarkCompleted, MarkFailed, TaskTyped, TaskStatus
<1>3. CASE ReviewTask(t)
  BY <1>1, <1>3 DEF ReviewTask, TaskTyped, TaskStatus
<1>4. CASE ReviewWork(t)
  <2>1. result[t].count \in Nat
    BY <1>1
  <2>2. payload' \in [Tasks -> Nat]
    BY <1>4, <2>1 DEF ReviewWork, TaskTyped
  <2>3. row' \in [Tasks -> Row]
    <3>1. CASE ReviewOf(t) \in Tasks
      BY <1>4, <3>1, RowTypes, WorkerAssumption DEF ReviewWork, TaskTyped
    <3>2. CASE ReviewOf(t) \notin Tasks
      BY <1>4, <3>2 DEF ReviewWork, TaskTyped
    <3> QED BY <3>1, <3>2
  <2>4. t \in Asked
    BY <1>4 DEF ReviewWork
  <2>5. swallowed' \subseteq Asked
    BY <1>4, <2>4 DEF ReviewWork, TaskTyped
  <2> QED BY <1>1, <1>4, <2>2, <2>3, <2>5 DEF ReviewWork, TaskTyped
<1>5. CASE InsertResult(t)
  <2>1. PICK review \in BOOLEAN :
            result' = [result EXCEPT ![t].count = @ + 1,
                                     ![t].flagged = IF review THEN result[t].count + 1 ELSE @]
    BY <1>5 DEF InsertResult
  <2>2. result' \in [Tasks -> [count : Nat, flagged : Nat]]
    <3> DEFINE r == [result[t] EXCEPT !.count = @ + 1,
                                      !.flagged = IF review THEN result[t].count + 1 ELSE @]
    <3>1. r \in [count : Nat, flagged : Nat]
      <4>1. result[t].count \in Nat /\ result[t].flagged \in Nat /\ result[t].count + 1 \in Nat
        BY <1>1
      <4>2. CASE review
        BY <1>1, <4>1, <4>2
      <4>3. CASE ~review
        BY <1>1, <4>1, <4>3
      <4> QED BY <4>2, <4>3
    <3>2. result' = [result EXCEPT ![t] = r]
      BY <2>1 DEF TaskTyped
    <3> HIDE DEF r
    <3> QED BY <3>1, <3>2 DEF TaskTyped
  <2>3. judged' \in [Asked -> Nat]
    BY <1>1, <1>5 DEF InsertResult, TaskTyped
  <2> QED BY <1>1, <1>5, <2>2, <2>3 DEF InsertResult, TaskTyped
<1>6. CASE CloseWork(t) \/ RetryWork(t)
  <2>1. Completed(row[t]) \in Row /\ AfterFailure(row[t], at[t].attempt) \in Row
    BY <1>1, RowTypes, WorkerAssumption
  <2>2. row' \in [Tasks -> Row]
    BY <1>6, <2>1 DEF CloseWork, RetryWork, TaskTyped
  <2> QED BY <1>1, <1>6, <2>2 DEF CloseWork, RetryWork, TaskTyped
<1>7. ASSUME UNCHANGED taskVars PROVE TaskTyped'
  BY <1>1, <1>7 DEF taskVars, TaskTyped
<1>8. CASE StoreFails(t)
  BY <1>7, <1>8 DEF StoreFails
<1>9. CASE RunStep(t) /\ UNCHANGED taskVars
  BY <1>7, <1>9
<1> QED BY <1>2, <1>3, <1>4, <1>5, <1>6, <1>8, <1>9 DEF TaskStep

\* Only the tasks that the heartbeat asked for have their results reviewed.
ReviewPhases == {"reviewTask", "reviewWork"}
ReviewsAsked(t) == at[t].phase \in ReviewPhases => t \in Asked

\* The steps of the queue and of the process, with the attempts as they are or at rest.
LEMMA QueueStepKeeps ==
    ASSUME AttemptTyped, TaskTyped, \A t \in Tasks : AttemptInv(t) /\ ReviewsAsked(t),
           \/ \E t \in Asked : RequestTask(t)
           \/ \E batch \in SUBSET Due : StartBatch(batch)
           \/ \E t \in Tasks : BecomesDue(t)
           \/ Crash \/ Restart
    PROVE  AttemptTyped' /\ TaskTyped' /\ \A t \in Tasks : AttemptInv(t)' /\ ReviewsAsked(t)'
<1>1. ASSUME UNCHANGED runVars
      PROVE  AttemptTyped' /\ \A t \in Tasks : AttemptInv(t)' /\ ReviewsAsked(t)'
  BY <1>1 DEF runVars, AttemptTyped, AttemptInv, ReviewsAsked
<1>2. ASSUME at' \in [Tasks -> Hands], UNCHANGED <<run, strays, faults>>,
             \A t \in Tasks : at'[t] = at[t] \/ at'[t].phase \in Quiet \ ReviewPhases
      PROVE  AttemptTyped' /\ \A t \in Tasks : AttemptInv(t)' /\ ReviewsAsked(t)'
  <2>1. AttemptTyped'
    BY <1>2 DEF AttemptTyped
  <2>2. ASSUME NEW t \in Tasks
        PROVE  AttemptInv(t)' /\ ReviewsAsked(t)'
    <3>1. strays'[t] = 0 /\ run'[t] = run[t] /\ Fits(run[t], at[t])
      BY <1>2 DEF AttemptInv
    <3>2. Fits(run[t], at'[t])
      BY <1>2, <3>1, QuietFits
    <3>3. ReviewsAsked(t)'
      BY <1>2 DEF ReviewsAsked
    <3> QED BY <3>1, <3>2, <3>3 DEF AttemptInv
  <2> QED BY <2>1, <2>2
<1>3. ASSUME NEW t \in Asked, RequestTask(t)
      PROVE  AttemptTyped' /\ TaskTyped' /\ \A o \in Tasks : AttemptInv(o)' /\ ReviewsAsked(o)'
  <2>1. t \in Tasks /\ row[t] \in Row /\ UNCHANGED <<run, strays, at>> /\ (Fault \/ NoFault)
    BY <1>3, Reviews DEF TaskTyped, RequestTask
  <2>2. row' \in [Tasks -> Row]
    BY <1>3, <2>1, RowTypes, WorkerAssumption DEF RequestTask, TaskTyped
  <2>3. requests' \in 0 .. RequestBudget
    BY <1>3, Constants DEF RequestTask, TaskTyped
  <2>4. TaskTyped'
    BY <1>3, <2>1, <2>2, <2>3 DEF RequestTask, TaskTyped, TaskStatus
  <2>5. AttemptTyped'
    BY <2>1, FaultTyped DEF AttemptTyped
  <2>6. \A o \in Tasks : AttemptInv(o)' /\ ReviewsAsked(o)'
    BY <2>1 DEF AttemptInv, ReviewsAsked
  <2> QED BY <2>4, <2>5, <2>6
<1>4. ASSUME NEW batch \in SUBSET Due, StartBatch(batch)
      PROVE  AttemptTyped' /\ TaskTyped' /\ \A o \in Tasks : AttemptInv(o)' /\ ReviewsAsked(o)'
  <2> DEFINE w == CHOOSE w \in Runtimes : TRUE
  <2>1. w \in Runtimes
    BY WorkerAssumption
  <2>2. \A t \in Tasks : row[t] \in Row /\ payload[t] \in Nat /\ row[t].attempt + 1 \in Nat
    BY RowTypes, WorkerAssumption DEF TaskTyped
  <2>3. \A t \in Tasks : Claimed(row[t], w) \in Row
    BY <2>1, <2>2, RowTypes
  <2>4. row' \in [Tasks -> Row]
    BY <1>4, <2>2, <2>3 DEF StartBatch
  <2>5. TaskTyped'
    BY <1>4, <2>4 DEF StartBatch, TaskTyped
  <2>6. \A t \in Tasks : [Idle EXCEPT !.phase = "start", !.attempt = row[t].attempt + 1,
                                        !.input = payload[t]] \in Hands
    BY <2>2 DEF Idle, Hands, Phases
  <2>7. at' \in [Tasks -> Hands]
    BY <1>4, <2>6 DEF StartBatch, Input, AttemptTyped
  <2>8. \A t \in Tasks : at'[t] = at[t] \/ at'[t].phase \in Quiet \ ReviewPhases
    BY <1>4 DEF StartBatch, Idle, Quiet, ReviewPhases
  <2>9. UNCHANGED <<run, strays, faults>>
    BY <1>4 DEF StartBatch, NoFault
  <2> QED BY <1>2, <2>5, <2>7, <2>8, <2>9
<1>5. ASSUME NEW t \in Tasks, BecomesDue(t)
      PROVE  AttemptTyped' /\ TaskTyped' /\ \A o \in Tasks : AttemptInv(o)' /\ ReviewsAsked(o)'
  <2>1. UNCHANGED runVars /\ row[t] \in Row
    BY <1>5 DEF BecomesDue, runVars, NoFault, TaskTyped
  <2>2. [row[t] EXCEPT !.due = TRUE] \in Row
    BY <2>1 DEF Row
  <2>3. row' \in [Tasks -> Row]
    BY <1>5, <2>2 DEF BecomesDue, TaskTyped
  <2> QED BY <1>1, <1>5, <2>1, <2>3 DEF BecomesDue, TaskTyped
<1>6. CASE Crash
  <2>1. Idle \in Hands /\ Idle.phase \in Quiet \ ReviewPhases
    BY DEF Idle, Hands, Phases, Quiet, ReviewPhases
  <2>2. at' \in [Tasks -> Hands] /\ \A t \in Tasks : at'[t].phase \in Quiet \ ReviewPhases
    BY <1>6, <2>1 DEF Crash
  <2>3. crashes' \in 0 .. CrashBudget
    BY <1>6, Constants DEF Crash, TaskTyped
  <2>4. up' = FALSE /\ UNCHANGED <<row, task, result, payload, judged, swallowed, requests>>
    BY <1>6 DEF Crash, taskVars
  <2>5. TaskTyped'
    BY <2>3, <2>4 DEF TaskTyped
  <2> QED BY <1>2, <1>6, <2>2, <2>5 DEF Crash, NoFault
<1>7. CASE Restart
  <2>1. UNCHANGED runVars
    BY <1>7 DEF Restart, runVars, NoFault
  <2>2. row' \in [Tasks -> Row]
    BY <1>7, RowTypes, WorkerAssumption DEF Restart, TaskTyped
  <2>3. task' \in [Tasks -> TaskStatus]
    BY <1>7 DEF Restart, TaskTyped, TaskStatus
  <2> QED BY <1>1, <1>7, <2>1, <2>2, <2>3 DEF Restart, TaskTyped
<1> QED BY <1>3, <1>4, <1>5, <1>6, <1>7

\* A step of the harness ends in the harness.
LEMMA RunEffect ==
    ASSUME AttemptTyped, NEW t \in Tasks, RunStep(t)
    PROVE  at'[t].phase \in RunPhases /\ at[t].phase \in RunPhases /\ at'[t].input = at[t].input /\ at'[t].attempt = at[t].attempt
           /\ \A o \in Tasks \ {t} : at'[o] = at[o]
<1>1. at \in [Tasks -> Hands] /\ at[t] \in Hands
  BY RunFields DEF AttemptTyped
<1>2. ASSUME NEW phase \in RunPhases, Goto(t, phase)
      PROVE  at'[t].phase \in RunPhases /\ at'[t].input = at[t].input /\ at'[t].attempt = at[t].attempt /\ \A o \in Tasks \ {t} : at'[o] = at[o]
  BY <1>1, <1>2 DEF Goto, Hands
<1>3. LoopPhases \subseteq RunPhases /\ {"begin", "insert", "load", "error"} \subseteq RunPhases
  BY DEF RunPhases
<1>4. "call" \in RunPhases /\ "tool" \in RunPhases /\ "save" \in RunPhases /\ "record" \in RunPhases
      /\ "finish" \in RunPhases /\ "finished" \in RunPhases
  BY DEF RunPhases, LoopPhases
<1>5. at[t].phase \in RunPhases
  BY <1>3, <1>4 DEF RunStep, FindRun, InsertRun, NotBegun, Load, LoadFails, Call, GiveUp, Tool, RecordTools,
     Save, Finish, LoopFails, Timeout, Phase
<1>6. CASE FindRun(t) \/ InsertRun(t) \/ NotBegun(t) \/ LoadFails(t) \/ GiveUp(t) \/ Finish(t)
           \/ LoopFails(t) \/ Timeout(t)
  BY <1>2, <1>3, <1>4, <1>5, <1>6
     DEF FindRun, JoinRun, InsertRun, NotBegun, LoadFails, GiveUp, Finish, LoopFails, Timeout
<1>7. CASE Load(t)
  BY <1>1, <1>4, <1>5, <1>7 DEF Load, Hands
<1>8. CASE Tool(t)
  BY <1>1, <1>4, <1>5, <1>8 DEF Tool, Hands
<1>9. CASE RecordTools(t) \/ Save(t)
  BY <1>1, <1>4, <1>5, <1>9 DEF RecordTools, Save, NextStep, Hands
<1>10. CASE Call(t)
  <2>1. CASE AnswerTools(t)
    BY <1>1, <1>2, <1>3, <1>4, <1>5, <2>1 DEF AnswerTools, Hands
  <2>2. CASE AnswerScratchpad(t)
    BY <1>1, <1>2, <1>3, <1>4, <1>5, <2>2 DEF AnswerScratchpad, Appended, Hands
  <2>3. CASE AnswerInvalid(t)
    BY <1>1, <1>4, <1>5, <2>3 DEF AnswerInvalid, NextStep, Hands
  <2>4. CASE AnswerFinal(t)
    BY <1>1, <1>4, <1>5, <2>4 DEF AnswerFinal, Hands
  <2>5. CASE AnswerLost(t)
    BY <1>2, <1>3, <1>5, <2>5 DEF AnswerLost
  <2> QED BY <1>10, <2>1, <2>2, <2>3, <2>4, <2>5 DEF Call, Answer
<1> QED BY <1>6, <1>7, <1>8, <1>9, <1>10 DEF RunStep

LEMMA AskedStep ==
    ASSUME AttemptTyped, NEW t \in Tasks, ReviewsAsked(t), TaskStep(t)
    PROVE  ReviewsAsked(t)'
<1>1. at \in [Tasks -> Hands] /\ at[t] \in Hands
  BY RunFields DEF AttemptTyped
<1>2. ASSUME NEW phase \in Phases, Goto(t, phase)
      PROVE  at'[t].phase = phase
  BY <1>1, <1>2 DEF Goto, Hands
<1>3. /\ "begin" \in Phases /\ "retry" \in Phases /\ "reviewTask" \in Phases
      /\ "reviewWork" \in Phases /\ "close" \in Phases
  BY DEF Phases, RunPhases
<1>4. CASE Start(t) \/ ReviewWork(t) \/ MarkFailed(t) \/ StoreFails(t)
  <2>1. at'[t].phase \in {"begin", "retry", "close"}
    BY <1>2, <1>3, <1>4 DEF Start, Prepared, Unprepared, Unrecorded, ReviewWork, MarkFailed, StoreFails
  <2> QED BY <2>1 DEF ReviewsAsked, ReviewPhases
<1>5. CASE MarkCompleted(t)
  BY <1>2, <1>3, <1>5 DEF MarkCompleted, ReviewsAsked, ReviewPhases
<1>6. CASE ReviewTask(t)
  BY <1>6 DEF ReviewTask, ReviewsAsked, ReviewPhases, Phase
<1>7. CASE InsertResult(t)
  <2>1. at'[t].phase = "mark"
    BY <1>1, <1>7 DEF InsertResult, Hands
  <2> QED BY <2>1 DEF ReviewsAsked, ReviewPhases
<1>8. CASE CloseWork(t) \/ RetryWork(t)
  <2>1. at'[t].phase = "idle"
    BY <1>1, <1>8 DEF CloseWork, RetryWork, Idle
  <2> QED BY <2>1 DEF ReviewsAsked, ReviewPhases
<1>9. CASE RunStep(t)
  <2>1. at'[t].phase \in RunPhases
    BY <1>9, RunEffect
  <2> QED BY <2>1 DEF ReviewsAsked, ReviewPhases, RunPhases, LoopPhases
<1> QED BY <1>4, <1>5, <1>6, <1>7, <1>8, <1>9 DEF TaskStep

AttemptsInv == TypeOK /\ \A t \in Tasks : AttemptInv(t) /\ ReviewsAsked(t)

LEMMA AttemptsStep == AttemptsInv /\ [Next]_vars => AttemptsInv'
<1> SUFFICES ASSUME AttemptsInv, [Next]_vars PROVE AttemptsInv'
  OBVIOUS
<1>1. AttemptTyped /\ TaskTyped /\ \A t \in Tasks : AttemptInv(t) /\ ReviewsAsked(t)
  BY Types DEF AttemptsInv
<1>2. ASSUME NEW t \in Tasks, TaskStep(t)
      PROVE  AttemptsInv'
  <2>1. Kept(t) /\ TaskTyped' /\ ReviewsAsked(t)'
    BY <1>1, <1>2, TaskStepKeeps, TaskStepTyped, AskedStep DEF ReviewsAsked, ReviewPhases, Phase
  <2>2. \A o \in Tasks : AttemptInv(o)' /\ ReviewsAsked(o)'
    BY <1>1, <2>1 DEF Kept, Apart, AttemptInv, ReviewsAsked
  <2>3. TypeOK'
    BY <2>1 DEF Kept, TypeOK, AttemptTyped, TaskTyped
  <2> QED BY <2>2, <2>3 DEF AttemptsInv
<1>3. CASE UNCHANGED vars
  BY <1>3 DEF vars, runVars, taskVars, AttemptsInv, TypeOK, AttemptInv, ReviewsAsked
<1>4. ASSUME AttemptTyped' /\ TaskTyped' /\ \A t \in Tasks : AttemptInv(t)' /\ ReviewsAsked(t)'
      PROVE  AttemptsInv'
  BY <1>4 DEF TypeOK, AttemptTyped, TaskTyped, AttemptsInv
<1> QED BY <1>1, <1>2, <1>3, <1>4, QueueStepKeeps DEF Next

LEMMA AttemptsInitially == Init => AttemptsInv
<1> SUFFICES ASSUME Init PROVE AttemptsInv
  OBVIOUS
<1> DEFINE r == [FreshRun EXCEPT !.status = "absent"]
<1>1. /\ r \in Run /\ r.status = "absent" /\ r.calls = 0 /\ r.tools = 0 /\ r.logged = 0
      /\ r.attempts = 0 /\ r.results = 0
  BY DEF FreshRun, Run, RunStatus
<1>2. Idle \in Hands /\ Idle.phase = "idle" /\ AbsentRow \in Row
  BY DEF Idle, Hands, Phases, AbsentRow, Row, Status
<1>3. \A t \in Tasks : run[t] = r /\ at[t] = Idle /\ strays[t] = 0
  BY DEF Init
<1>4. run \in [Tasks -> Run]
  BY <1>1 DEF Init
<1> HIDE DEF r
<1>5. Fits(r, Idle)
  BY <1>1, <1>2, OneMore DEF Fits, ResultInv, SpendInv, InLoop
<1>6. TypeOK
  BY <1>2, <1>4, Constants DEF Init, TypeOK, TaskStatus
<1>7. ASSUME NEW t \in Tasks
      PROVE  AttemptInv(t) /\ ReviewsAsked(t)
  <2>1. Fits(run[t], at[t]) /\ strays[t] = 0
    BY <1>3, <1>5
  <2>2. ReviewsAsked(t)
    BY <1>2, <1>3 DEF ReviewsAsked, ReviewPhases
  <2> QED BY <2>1, <2>2 DEF AttemptInv
<1> QED BY <1>6, <1>7 DEF AttemptsInv

\* subagent_tasks, agent_runs, their queue rows and the attempts in hand keep their
\* types: no status is written that the code does not read back.
THEOREM Typing == Spec => []TypeOK
<1>1. AttemptsInv => TypeOK
  BY DEF AttemptsInv
<1> QED BY <1>1, AttemptsInitially, AttemptsStep, PTL DEF Spec

\* However attempts end, one running row per task, one result per run of the harness,
\* and that from a completed run: begin_run and finish_run.
THEOREM ResultsAreRuns == Spec => []OneRunPerResult
<1>1. AttemptsInv => OneRunPerResult
  BY DEF AttemptsInv, AttemptInv, OneRunPerResult, Fits, ResultInv
<1> QED BY <1>1, AttemptsInitially, AttemptsStep, PTL DEF Spec

\* What a run row says was spent is within the budget of the attempts that used it,
\* for any crashes between them.
THEOREM SpendHolds == Spec => []SpendIsCounted
<1>1. AttemptsInv => SpendIsCounted
  BY DEF AttemptsInv, AttemptInv, SpendIsCounted, Fits, SpendInv
<1> QED BY <1>1, AttemptsInitially, AttemptsStep, PTL DEF Spec

------------------------------------------------------------------------------
(* The review of a result. *)

\* An attempt has its row, and a runtime that is down has no attempt.
AtWork ==
    /\ \A t \in Tasks : at[t].phase # "idle" => row[t].status = "processing"
    /\ ~up => \A t \in Tasks : at[t].phase = "idle"

\* The last result of a task requires a review.
LastFlagged(t) == result[t].flagged = result[t].count /\ result[t].count > 0
Counted(t) ==
    /\ result[t].flagged <= result[t].count
    /\ at[t].phase = "mark" => (at[t].review <=> LastFlagged(t))
    /\ at[t].phase \in ReviewPhases => LastFlagged(t)

\* A review that runs is about the payload of its row, and was written down before
\* its row is closed.
Judging(t) ==
    LET v == ReviewOf(t) IN
    /\ t \notin swallowed /\ at[v].phase # "idle" => at[v].input = payload[v]
    /\ at[v].phase \in {"mark", "close"} => judged[t] = at[v].input

\* A result that requires a review has it asked for before its row is closed.
Pending(t) == Active(row[ReviewOf(t)]) \/ row[ReviewOf(t)].status = "dead"
Followed(t) ==
    t \notin swallowed /\ LastFlagged(t) /\ (row[t].status = "done" \/ at[t].phase = "close") =>
        /\ payload[ReviewOf(t)] = result[t].flagged
        /\ judged[t] = result[t].flagged \/ Pending(t)

ReviewInv ==
    /\ AtWork
    /\ \A t \in Tasks : Counted(t)
    /\ \A t \in Asked : Judging(t) /\ Followed(t)

LEMMA ReviewIsOne ==
    \A t, o \in Asked : (ReviewOf(t) = ReviewOf(o) => t = o) /\ ReviewOf(t) # o
<1>1. \A t, o \in Asked : ReviewOf(t) = ReviewOf(o) => t = o
  BY DEF ReviewOf
<1> QED BY <1>1, Reviews

LEMMA StatusEffects ==
    ASSUME NEW r \in Row, NEW w, NEW n
    PROVE  /\ Completed(r).status = "done" /\ Claimed(r, w).status = "processing"
           /\ Enqueued(r).status = IF r.status = "processing" THEN "processing" ELSE "pending"
           /\ AfterFailure(r, n).status \in {"dead", "failed"} /\ MadeRetryable(r).status = "failed"
           /\ r.status = "processing" => Enqueued(r) = r
BY DEF Completed, Claimed, Enqueued, AfterFailure, MadeRetryable, Row

\* The steps of an attempt that write neither a row of the queue nor a result.
MovesOn(t) ==
    /\ UNCHANGED <<row, result, payload, judged, swallowed, up>>
    /\ \A o \in Tasks \ {t} : at'[o] = at[o]
    /\ at[t].phase # "idle" /\ at'[t].phase # "idle" /\ at'[t].input = at[t].input /\ at'[t].attempt = at[t].attempt
    /\ \/ at'[t].phase \in RunPhases \cup {"retry"}
       \/ at[t].phase = "mark" /\ at'[t].phase = IF at[t].review /\ t \in Asked THEN "reviewTask" ELSE "close"
       \/ at[t].phase = "reviewTask" /\ at'[t].phase = "reviewWork"

LEMMA MovesOnWhen ==
    ASSUME AttemptTyped, NEW t \in Tasks, TaskStep(t),
           Start(t) \/ MarkCompleted(t) \/ ReviewTask(t) \/ MarkFailed(t) \/ StoreFails(t)
             \/ (RunStep(t) /\ UNCHANGED taskVars)
    PROVE  MovesOn(t)
<1>1. at \in [Tasks -> Hands] /\ up' = up
  BY DEF AttemptTyped, TaskStep
<1>2. /\ "begin" \in Phases /\ "retry" \in Phases /\ "reviewTask" \in Phases /\ "begin" \in RunPhases
      /\ "reviewWork" \in Phases /\ "close" \in Phases /\ "idle" \notin RunPhases
  BY DEF Phases, RunPhases, LoopPhases
<1>3. CASE Start(t)
  <2>1. PICK phase \in {"begin", "retry"} : Goto(t, phase)
    BY <1>3 DEF Start, Prepared, Unprepared, Unrecorded
  <2>2. at'[t].phase = phase /\ at'[t].input = at[t].input /\ at'[t].attempt = at[t].attempt /\ \A o \in Tasks \ {t} : at'[o] = at[o]
    BY <1>1, <1>2, <2>1, GotoTyped
  <2> QED BY <1>1, <1>2, <1>3, <2>2 DEF Start, MovesOn, Phase
<1>4. CASE MarkCompleted(t)
  <2> DEFINE phase == IF at[t].review /\ t \in Asked THEN "reviewTask" ELSE "close"
  <2>1. Goto(t, phase) /\ phase \in Phases /\ phase # "idle"
    BY <1>2, <1>4 DEF MarkCompleted
  <2>2. at'[t].phase = phase /\ at'[t].input = at[t].input /\ at'[t].attempt = at[t].attempt /\ \A o \in Tasks \ {t} : at'[o] = at[o]
    BY <1>1, <2>1, GotoTyped
  <2> QED BY <1>1, <1>4, <2>1, <2>2 DEF MarkCompleted, MovesOn, Phase
<1>5. CASE ReviewTask(t)
  <2>1. at'[t].phase = "reviewWork" /\ at'[t].input = at[t].input /\ at'[t].attempt = at[t].attempt /\ \A o \in Tasks \ {t} : at'[o] = at[o]
    BY <1>1, <1>2, <1>5, GotoTyped DEF ReviewTask
  <2> QED BY <1>1, <1>5, <2>1 DEF ReviewTask, MovesOn, Phase
<1>6. CASE MarkFailed(t) \/ StoreFails(t)
  <2>1. at'[t].phase = "retry" /\ at'[t].input = at[t].input /\ at'[t].attempt = at[t].attempt /\ \A o \in Tasks \ {t} : at'[o] = at[o]
    BY <1>1, <1>2, <1>6, GotoTyped DEF MarkFailed, StoreFails
  <2> QED BY <1>1, <1>6, <2>1 DEF MarkFailed, StoreFails, MovesOn, Phase, taskVars
<1>7. CASE RunStep(t) /\ UNCHANGED taskVars
  BY <1>1, <1>2, <1>7, RunEffect DEF MovesOn, taskVars
<1> QED BY <1>3, <1>4, <1>5, <1>6, <1>7

LEMMA MovesOnKeeps ==
    ASSUME ReviewInv, NEW t \in Tasks, MovesOn(t)
    PROVE  ReviewInv'
<1>1. AtWork'
  BY DEF ReviewInv, AtWork, MovesOn
<1>2. ASSUME NEW o \in Tasks
      PROVE  Counted(o)'
  <2>1. Counted(o) /\ (LastFlagged(o)' <=> LastFlagged(o)) /\ result' = result
    BY DEF ReviewInv, MovesOn, LastFlagged
  <2>2. CASE o # t
    BY <2>1, <2>2 DEF Counted, MovesOn
  <2>3. CASE o = t
    BY <2>1, <2>3 DEF Counted, MovesOn, ReviewPhases, RunPhases, LoopPhases
  <2> QED BY <2>2, <2>3
<1>3. ASSUME NEW o \in Asked
      PROVE  Judging(o)' /\ Followed(o)'
  <2> DEFINE v == ReviewOf(o)
  <2>1. Judging(o) /\ Followed(o) /\ Counted(o) /\ Counted(t) /\ o \in Tasks /\ v \in Tasks
        /\ (LastFlagged(o)' <=> LastFlagged(o))
    BY <1>3, Reviews DEF ReviewInv, MovesOn, LastFlagged
  <2>2. Judging(o)'
    <3>1. CASE v = t
      BY <2>1, <3>1 DEF Judging, MovesOn, RunPhases, LoopPhases
    <3>2. CASE v # t
      BY <2>1, <3>2 DEF Judging, MovesOn
    <3> QED BY <3>1, <3>2
  <2>3. at'[o].phase = "close" /\ LastFlagged(o) => at[o].phase = "close"
    <3>1. CASE o = t
      BY <1>3, <2>1, <3>1 DEF Counted, MovesOn, RunPhases, LoopPhases
    <3>2. CASE o # t
      BY <2>1, <3>2 DEF MovesOn
    <3> QED BY <3>1, <3>2
  <2>4. Followed(o)'
    BY <2>1, <2>3 DEF Followed, Pending, MovesOn
  <2> QED BY <2>2, <2>4
<1> QED BY <1>1, <1>2, <1>3 DEF ReviewInv

LEMMA InsertResultKeeps ==
    ASSUME AttemptTyped, TaskTyped, ReviewInv, NEW t \in Tasks, InsertResult(t), up' = up
    PROVE  ReviewInv'
<1>1. PICK review \in BOOLEAN :
          /\ result' = [result EXCEPT ![t].count = @ + 1,
                                      ![t].flagged = IF review THEN result[t].count + 1 ELSE @]
          /\ at' = [at EXCEPT ![t].phase = "mark", ![t].review = review]
  BY DEF InsertResult
<1>2. /\ result[t] \in [count : Nat, flagged : Nat] /\ result[t].count \in Nat /\ result[t].flagged \in Nat
      /\ at[t] \in Hands /\ at[t].phase = "finished" /\ row[t].status = "processing"
      /\ UNCHANGED <<row, payload, swallowed, up>>
  BY RunFields DEF TaskTyped, InsertResult, Phase, ReviewInv, AtWork
<1>3. /\ at'[t].phase = "mark" /\ at'[t].review = review /\ at'[t].input = at[t].input
      /\ \A o \in Tasks \ {t} : at'[o] = at[o]
  BY <1>1, <1>2 DEF AttemptTyped, Hands
<1>4. /\ result'[t].count = result[t].count + 1
      /\ result'[t].flagged = IF review THEN result[t].count + 1 ELSE result[t].flagged
      /\ \A o \in Tasks \ {t} : result'[o] = result[o]
  BY <1>1, <1>2 DEF TaskTyped
<1>5. AtWork'
  BY <1>2, <1>3 DEF ReviewInv, AtWork
<1>6. ASSUME NEW o \in Tasks
      PROVE  Counted(o)'
  <2>1. CASE o = t
    <3>1. result[t].flagged <= result[t].count
      BY DEF ReviewInv, Counted
    <3>2. /\ result'[t].flagged <= result'[t].count
          /\ review <=> (result'[t].flagged = result'[t].count /\ result'[t].count > 0)
      <4>1. CASE review
        BY <1>2, <1>4, <3>1, <4>1
      <4>2. CASE ~review
        BY <1>2, <1>4, <3>1, <4>2
      <4> QED BY <4>1, <4>2
    <3> QED BY <1>3, <2>1, <3>2 DEF Counted, LastFlagged, ReviewPhases
  <2>2. CASE o # t
    BY <1>3, <1>4, <2>2 DEF ReviewInv, Counted, LastFlagged
  <2> QED BY <2>1, <2>2
<1>7. ASSUME NEW o \in Asked
      PROVE  Judging(o)' /\ Followed(o)'
  <2> DEFINE v == ReviewOf(o)
  <2>1. /\ Judging(o) /\ Followed(o) /\ o \in Tasks /\ v \in Tasks /\ v # o
        /\ judged'[o] = IF t = v THEN at[t].input ELSE judged[o]
    BY Reviews DEF ReviewInv, InsertResult
  <2>2. CASE t = v
    <3>1. Judging(o)'
      BY <1>2, <1>3, <2>1, <2>2 DEF Judging
    <3>2. Pending(o)'
      BY <1>2, <2>2 DEF Pending, Active
    <3>3. at'[o] = at[o] /\ result'[o] = result[o]
      BY <1>3, <1>4, <2>1, <2>2
    <3>4. Followed(o)'
      BY <1>2, <2>1, <3>2, <3>3 DEF Followed, LastFlagged
    <3> QED BY <3>1, <3>4
  <2>3. CASE t # v /\ t # o
    <3>1. at'[o] = at[o] /\ at'[v] = at[v] /\ result'[o] = result[o] /\ judged'[o] = judged[o]
      BY <1>3, <1>4, <2>1, <2>3
    <3> QED BY <1>2, <2>1, <3>1 DEF Judging, Followed, LastFlagged, Pending
  <2>4. CASE t = o
    <3>1. at'[v] = at[v] /\ judged'[o] = judged[o]
      BY <1>3, <2>1, <2>4
    <3>2. Judging(o)'
      BY <1>2, <2>1, <3>1 DEF Judging
    <3>3. Followed(o)'
      BY <1>2, <1>3, <2>4 DEF Followed
    <3> QED BY <3>2, <3>3
  <2> QED BY <2>2, <2>3, <2>4
<1> QED BY <1>5, <1>6, <1>7 DEF ReviewInv

LEMMA ReviewWorkKeeps ==
    ASSUME AttemptTyped, TaskTyped, ReviewInv, NEW t \in Asked, ReviewWork(t), up' = up
    PROVE  ReviewInv'
<1> DEFINE w == ReviewOf(t)
<1>1. /\ t \in Tasks /\ w \in Tasks /\ w # t /\ row[w] \in Row
      /\ at[t].phase = "reviewWork" /\ UNCHANGED <<result, judged, up>>
  BY Reviews DEF TaskTyped, ReviewWork, Phase
<1>2. at'[t].phase = "close" /\ at'[t].input = at[t].input /\ \A o \in Tasks \ {t} : at'[o] = at[o]
  <2>1. "close" \in Phases
    BY DEF Phases
  <2> QED BY <1>1, <2>1, GotoTyped DEF ReviewWork, AttemptTyped
<1>3. /\ row'[w] = Enqueued(row[w]) /\ payload'[w] = result[t].count
      /\ \A o \in Tasks \ {w} : row'[o] = row[o] /\ payload'[o] = payload[o]
      /\ \A o \in Asked \ {t} : o \in swallowed' <=> o \in swallowed
      /\ t \in swallowed' <=> row[w].status = "processing"
  BY <1>1 DEF ReviewWork, TaskTyped
<1>4. /\ row'[w].status = IF row[w].status = "processing" THEN "processing" ELSE "pending"
  BY <1>1, <1>3, StatusEffects
<1>5. AtWork'
  BY <1>1, <1>2, <1>3, <1>4 DEF ReviewInv, AtWork
<1>6. ASSUME NEW o \in Tasks
      PROVE  Counted(o)'
  BY <1>1, <1>2 DEF ReviewInv, Counted, LastFlagged, ReviewPhases
<1>7. ASSUME NEW o \in Asked
      PROVE  Judging(o)' /\ Followed(o)'
  <2> DEFINE v == ReviewOf(o)
  <2>1. Judging(o) /\ Followed(o) /\ o \in Tasks /\ v \in Tasks /\ v # o /\ v # t /\ at'[v] = at[v]
    BY <1>2, Reviews DEF ReviewInv
  <2>2. CASE o = t
    <3>1. Judging(o)'
      BY <1>1, <1>3, <2>1, <2>2 DEF Judging, ReviewInv, AtWork
    <3>2. payload'[v] = result'[o].flagged
      BY <1>1, <1>3, <2>2 DEF ReviewInv, Counted, LastFlagged, ReviewPhases
    <3>3. Pending(o)'
      BY <1>4, <2>2 DEF Pending, Active
    <3> QED BY <3>1, <3>2, <3>3 DEF Followed
  <2>3. CASE o # t
    <3>1. v # w /\ o # w
      BY <2>3, ReviewIsOne, Reviews
    <3>2. /\ row'[v] = row[v] /\ payload'[v] = payload[v] /\ row'[o] = row[o] /\ at'[o] = at[o]
          /\ o \in swallowed' <=> o \in swallowed
      BY <1>2, <1>3, <2>1, <2>3, <3>1
    <3> QED BY <1>1, <2>1, <3>2 DEF Judging, Followed, LastFlagged, Pending
  <2> QED BY <2>2, <2>3
<1> QED BY <1>5, <1>6, <1>7 DEF ReviewInv

LEMMA EndKeeps ==
    ASSUME AttemptTyped, TaskTyped, ReviewInv, NEW t \in Tasks, CloseWork(t) \/ RetryWork(t), up' = up
    PROVE  ReviewInv'
<1>1. /\ row[t] \in Row /\ at[t].phase \in {"close", "retry"} /\ at'[t] = Idle /\ Idle.phase = "idle"
      /\ \A o \in Tasks \ {t} : at'[o] = at[o] /\ row'[o] = row[o]
      /\ UNCHANGED <<result, payload, judged, swallowed, up>>
  BY DEF CloseWork, RetryWork, Phase, Idle, AttemptTyped, TaskTyped
<1>2. \/ at[t].phase = "close" /\ row'[t].status = "done"
      \/ at[t].phase = "retry" /\ row'[t].status \in {"dead", "failed"}
  <2>1. /\ Completed(row[t]).status = "done"
        /\ AfterFailure(row[t], at[t].attempt).status \in {"dead", "failed"}
    BY <1>1, StatusEffects
  <2>2. CASE CloseWork(t)
    BY <2>1, <2>2 DEF CloseWork, Phase, TaskTyped
  <2>3. CASE RetryWork(t)
    BY <2>1, <2>3 DEF RetryWork, Phase, TaskTyped
  <2> QED BY <2>2, <2>3
<1>3. AtWork'
  BY <1>1 DEF ReviewInv, AtWork
<1>4. ASSUME NEW o \in Tasks
      PROVE  Counted(o)'
  BY <1>1 DEF ReviewInv, Counted, LastFlagged, ReviewPhases
<1>5. ASSUME NEW o \in Asked
      PROVE  Judging(o)' /\ Followed(o)'
  <2> DEFINE v == ReviewOf(o)
  <2>1. Judging(o) /\ Followed(o) /\ o \in Tasks /\ v \in Tasks /\ v # o
    BY Reviews DEF ReviewInv
  <2>2. Judging(o)'
    BY <1>1, <2>1 DEF Judging
  <2>3. Followed(o)'
    <3>1. CASE t = v
      <4>1. /\ at[v].phase # "idle" /\ at'[o] = at[o] /\ row'[o] = row[o]
            /\ at[v].phase = "close" \/ row'[v].status \in {"dead", "failed"}
        BY <1>1, <1>2, <2>1, <3>1
      <4> QED BY <1>1, <2>1, <4>1 DEF Judging, Followed, LastFlagged, Pending, Active
    <3>2. CASE t = o
      <4>1. row'[v] = row[v] /\ (row'[o].status = "done" => at[o].phase = "close") /\ at'[o].phase = "idle"
        BY <1>1, <1>2, <2>1, <3>2
      <4> QED BY <1>1, <2>1, <4>1 DEF Followed, LastFlagged, Pending, Active
    <3>3. CASE t # o /\ t # v
      <4>1. row'[v] = row[v] /\ row'[o] = row[o] /\ at'[o] = at[o]
        BY <1>1, <2>1, <3>3
      <4> QED BY <1>1, <2>1, <4>1 DEF Followed, LastFlagged, Pending, Active
    <3> QED BY <3>1, <3>2, <3>3
  <2> QED BY <2>2, <2>3
<1> QED BY <1>3, <1>4, <1>5 DEF ReviewInv

\* Between two batches, and when the process dies or comes back, nobody is at work:
\* the rows change, and none becomes done.
LEMMA QueueKeepsReviews ==
    ASSUME AttemptTyped, TaskTyped, ReviewInv, UNCHANGED <<result, judged, swallowed>>, payload' = payload,
           \A t \in Tasks : at'[t].phase \in {"idle", "start"},
           \A t \in Tasks : at'[t].phase = "start" => row'[t].status = "processing" /\ at'[t].input = payload[t],
           ~up' => \A t \in Tasks : at'[t].phase = "idle",
           \A t \in Tasks : row'[t].status = "done" => row[t].status = "done",
           \A t \in Tasks \ Asked : Active(row[t]) => Active(row'[t]),
           \A t \in Tasks \ Asked : row[t].status = "dead" => row'[t].status = "dead"
    PROVE  ReviewInv'
<1>1. AtWork'
  BY DEF AtWork
<1>2. ASSUME NEW o \in Tasks
      PROVE  Counted(o)'
  BY DEF ReviewInv, Counted, ReviewPhases
<1>3. ASSUME NEW o \in Asked
      PROVE  Judging(o)' /\ Followed(o)'
  <2> DEFINE v == ReviewOf(o)
  <2>1. Followed(o) /\ o \in Tasks /\ v \in Tasks \ Asked
    BY Reviews DEF ReviewInv
  <2>2. Judging(o)'
    BY <2>1 DEF Judging
  <2>3. Pending(o) => Pending(o)'
    BY <2>1 DEF Pending, Active
  <2>4. Followed(o)'
    BY <2>1, <2>3 DEF Followed, LastFlagged
  <2> QED BY <2>2, <2>4
<1> QED BY <1>1, <1>2, <1>3 DEF ReviewInv

LEMMA QueueStepReviews ==
    ASSUME AttemptTyped, TaskTyped, ReviewInv,
           \/ \E t \in Asked : RequestTask(t)
           \/ \E batch \in SUBSET Due : StartBatch(batch)
           \/ \E t \in Tasks : BecomesDue(t)
           \/ Crash \/ Restart
    PROVE  ReviewInv'
<1>1. ASSUME Busy = {} PROVE \A t \in Tasks : at[t].phase = "idle"
  BY <1>1 DEF Busy, Phase
<1>2. ASSUME NEW t \in Asked, RequestTask(t)
      PROVE  ReviewInv'
  <2>1. t \in Tasks /\ row[t] \in Row /\ \A o \in Tasks : at'[o].phase = "idle"
    BY <1>1, <1>2, Reviews DEF TaskTyped, RequestTask
  <2>2. (row'[t] = Enqueued(row[t]) \/ row'[t] = row[t]) /\ \A o \in Tasks \ {t} : row'[o] = row[o]
    BY <1>2, <2>1 DEF RequestTask, TaskTyped
  <2>3. row'[t].status = "done" => row[t].status = "done"
    BY <2>1, <2>2, StatusEffects
  <2> QED BY <1>2, <2>1, <2>2, <2>3, QueueKeepsReviews DEF RequestTask
<1>3. ASSUME NEW batch \in SUBSET Due, StartBatch(batch)
      PROVE  ReviewInv'
  <2>1. up /\ up' = up /\ \A t \in Tasks : at[t].phase = "idle" /\ row[t] \in Row
    BY <1>1, <1>3 DEF StartBatch, TaskTyped
  <2>2. \A t \in Tasks : IF t \in batch THEN at'[t].phase = "start" /\ at'[t].input = payload[t]
                          ELSE at'[t].phase = "idle"
    BY <1>3, <2>1 DEF StartBatch, Input, Idle
  <2>3. \A t \in Tasks : IF t \in batch THEN row'[t].status = "processing" ELSE row'[t] = row[t]
    BY <1>3, <2>1, StatusEffects DEF StartBatch
  <2>4. \A t \in batch : row[t].status \in {"pending", "failed"}
    BY DEF Due, Claimable
  <2>5. UNCHANGED <<result, payload, judged, swallowed>>
    BY <1>3 DEF StartBatch
  <2>6. \A t \in Tasks : /\ Active(row[t]) => Active(row'[t])
                         /\ row[t].status = "dead" => row'[t].status = "dead"
                         /\ row'[t].status = "done" => row[t].status = "done"
    BY <2>3, <2>4 DEF Active
  <2>7. /\ \A t \in Tasks : row'[t].status = "done" => row[t].status = "done"
        /\ \A t \in Tasks \ Asked : Active(row[t]) => Active(row'[t])
        /\ \A t \in Tasks \ Asked : row[t].status = "dead" => row'[t].status = "dead"
    BY <2>6
  <2>8. \A t \in Tasks : at'[t].phase \in {"idle", "start"}
    BY <2>2
  <2>9. /\ \A t \in Tasks : at'[t].phase = "start" =>
            row'[t].status = "processing" /\ at'[t].input = payload[t]
        /\ ~up' => \A t \in Tasks : at'[t].phase = "idle"
    BY <2>1, <2>2, <2>3
  <2> QED BY <2>5, <2>7, <2>8, <2>9, QueueKeepsReviews
<1>4. ASSUME NEW t \in Tasks, BecomesDue(t)
      PROVE  ReviewInv'
  <2>1. \A o \in Tasks : row'[o].status = row[o].status
    BY <1>4 DEF BecomesDue, TaskTyped, Row
  <2>2. UNCHANGED <<at, result, payload, judged, swallowed, up>>
    BY <1>4 DEF BecomesDue
  <2> QED BY <2>1, <2>2, Reviews DEF ReviewInv, AtWork, Counted, Judging, Followed, Pending, LastFlagged, Active
<1>5. CASE Crash
  <2>1. /\ UNCHANGED <<row, result, payload, judged, swallowed>> /\ up' = FALSE
        /\ \A t \in Tasks : at'[t].phase = "idle"
    BY <1>5 DEF Crash, taskVars, Idle
  <2> QED BY <2>1, QueueKeepsReviews
<1>6. CASE Restart
  <2>1. /\ UNCHANGED <<at, result, payload, judged, swallowed>> /\ up' = TRUE
        /\ \A t \in Tasks : at'[t].phase = "idle"
    BY <1>6 DEF Restart, ReviewInv, AtWork
  <2>2. \A t \in Tasks : row'[t] = row[t] \/ (row[t].status = "processing" /\ row'[t].status = "failed")
    BY <1>6, StatusEffects DEF Restart, TaskTyped
  <2>3. \A t \in Tasks : /\ Active(row[t]) => Active(row'[t])
                         /\ row[t].status = "dead" => row'[t].status = "dead"
                         /\ row'[t].status = "done" => row[t].status = "done"
    BY <2>2 DEF Active
  <2>4. /\ \A t \in Tasks : row'[t].status = "done" => row[t].status = "done"
        /\ \A t \in Tasks \ Asked : Active(row[t]) => Active(row'[t])
        /\ \A t \in Tasks \ Asked : row[t].status = "dead" => row'[t].status = "dead"
    BY <2>3
  <2>5. /\ \A t \in Tasks : at'[t].phase \in {"idle", "start"}
        /\ \A t \in Tasks : at'[t].phase = "start" =>
            row'[t].status = "processing" /\ at'[t].input = payload[t]
        /\ ~up' => \A t \in Tasks : at'[t].phase = "idle"
    BY <2>1
  <2> QED BY <2>1, <2>4, <2>5, QueueKeepsReviews
<1> QED BY <1>2, <1>3, <1>4, <1>5, <1>6

LEMMA ReviewInitially == Init => ReviewInv
<1> SUFFICES ASSUME Init PROVE ReviewInv
  OBVIOUS
<1>1. \A t \in Tasks : at[t].phase = "idle" /\ result[t].count = 0 /\ result[t].flagged = 0
  BY DEF Init, Idle
<1>2. up
  BY DEF Init
<1> QED BY <1>1, <1>2, Reviews DEF ReviewInv, AtWork, Counted, Judging, Followed, LastFlagged, ReviewPhases

LEMMA ReviewStep == AttemptsInv /\ ReviewInv /\ [Next]_vars => ReviewInv'
<1> SUFFICES ASSUME AttemptsInv, ReviewInv, [Next]_vars PROVE ReviewInv'
  OBVIOUS
<1>1. AttemptTyped /\ TaskTyped /\ \A t \in Tasks : ReviewsAsked(t)
  BY Types DEF AttemptsInv
<1>2. ASSUME NEW t \in Tasks, TaskStep(t)
      PROVE  ReviewInv'
  <2>1. up' = up
    BY <1>2 DEF TaskStep
  <2>2. CASE InsertResult(t)
    BY <1>1, <2>1, <2>2, InsertResultKeeps
  <2>3. CASE ReviewWork(t)
    <3>1. t \in Asked
      BY <1>1, <2>3 DEF ReviewsAsked, ReviewPhases, ReviewWork, Phase
    <3> QED BY <1>1, <2>1, <2>3, <3>1, ReviewWorkKeeps
  <2>4. CASE CloseWork(t) \/ RetryWork(t)
    BY <1>1, <2>1, <2>4, EndKeeps
  <2>5. CASE MovesOn(t)
    BY <2>5, MovesOnKeeps
  <2> QED BY <1>1, <1>2, <2>2, <2>3, <2>4, <2>5, MovesOnWhen DEF TaskStep
<1>3. CASE UNCHANGED vars
  BY <1>3 DEF vars, runVars, taskVars, ReviewInv, AtWork, Counted, Judging, Followed, Pending, LastFlagged
<1> QED BY <1>1, <1>2, <1>3, QueueStepReviews DEF Next

\* enqueue_conflict_review_if_needed: no result that requires a review is forgotten,
\* whatever dies or fails between the result and the end of its review.
THEOREM ResultsFollowed == Spec => []ResultsAreReviewed
<1>1. ReviewInv => ResultsAreReviewed
  BY DEF ReviewInv, Followed, Pending, LastFlagged, ResultsAreReviewed
<1> QED BY <1>1, AttemptsInitially, AttemptsStep, ReviewInitially, ReviewStep, PTL DEF Spec

------------------------------------------------------------------------------
(* Refinement: what a step of the tasks is to ExclusiveWork. *)

\* The runtime that is up, whichever it is.
Coordinator == CHOOSE w \in Runtimes : TRUE

\* An attempt in hand is the last claim of its row.
HandsOwn ==
    \A t \in Tasks : at[t].phase # "idle" =>
        row[t].worker = Coordinator /\ row[t].attempt = at[t].attempt

\* A task as ExclusiveWork sees it.
Standing(status) ==
    CASE status = "absent" -> "idle"
      [] status \in {"pending", "failed"} -> "ready"
      [] status = "processing" -> "orphaned"
      [] status = "done" -> "finished"
      [] status = "dead" -> "abandoned"
Holder(t) == IF Executing(t) THEN row[t].worker ELSE NoRuntime
Tries(t) == row[t].attempt

LEMMA StandingOf ==
    ASSUME TaskTyped, NEW t \in Tasks
    PROVE  AbstractState(t) = IF at[t].phase # "idle" THEN "running" ELSE Standing(row[t].status)
<1>1. row[t].status \in Status
  BY DEF TaskTyped, Row
<1> QED BY <1>1 DEF AbstractState, Executing, Phase, Standing, Status

LEMMA StandingNext ==
    ASSUME TaskTyped', NEW t \in Tasks
    PROVE  AbstractState(t)' = IF at'[t].phase # "idle" THEN "running" ELSE Standing(row'[t].status)
<1>1. row'[t].status \in Status
  BY DEF TaskTyped, Row
<1> QED BY <1>1 DEF AbstractState, Executing, Phase, Standing, Status

LEMMA StandingIs ==
    /\ Standing("absent") = "idle" /\ Standing("pending") = "ready" /\ Standing("failed") = "ready"
    /\ Standing("processing") = "orphaned" /\ Standing("done") = "finished"
    /\ Standing("dead") = "abandoned"
    /\ \A status \in Status : /\ Standing(status) # "running"
                              /\ Standing(status) = "orphaned" => status = "processing"
BY DEF Standing, Status

LEMMA HolderOf ==
    ASSUME NEW t \in Tasks
    PROVE  /\ Holder(t) = IF at[t].phase # "idle" THEN row[t].worker ELSE NoRuntime
           /\ Holder(t)' = IF at'[t].phase # "idle" THEN row'[t].worker ELSE NoRuntime
BY DEF Holder, Executing, Phase

\* A task whose row and attempt are as they were is as it was.
Same(t) == /\ AbstractState(t)' = AbstractState(t)
           /\ Holder(t)' = Holder(t)
           /\ Tries(t)' = Tries(t)

LEMMA SameWhen ==
    ASSUME TaskTyped, TaskTyped', NEW t \in Tasks, at'[t].phase = "idle" <=> at[t].phase = "idle",
           row'[t].status = row[t].status, row'[t].worker = row[t].worker,
           row'[t].attempt = row[t].attempt
    PROVE  Same(t)
BY StandingOf, StandingNext, HolderOf DEF Same, Tries

LEMMA Stutter ==
    ASSUME \A t \in Tasks : Same(t)
    PROVE  UNCHANGED Abstract!abstractVars
BY DEF Same, Holder, Tries, Abstract!abstractVars

LEMMA Starts ==
    ASSUME NEW r \in Runtimes, NEW S \in SUBSET Tasks,
           \A t \in S : AbstractState(t) = "ready" /\ AbstractState(t)' = "running"
                       /\ Holder(t)' = r /\ Tries(t)' = Tries(t) + 1,
           \A t \in Tasks : Holder(t) \in {r, NoRuntime},
           \A t \in Tasks \ S : Same(t)
    PROVE  Abstract!Start(r, S)
BY DEF Same, Holder, Tries, Abstract!Start

LEMMA Ends ==
    ASSUME NEW r \in Runtimes, NEW t \in Tasks, NEW outcome,
           AbstractState(t) = "running", Holder(t) = r, outcome = "abandoned" => Tries(t) >= MaxAttempts,
           AbstractState(t)' = outcome, Holder(t)' = NoRuntime, Tries(t)' = Tries(t),
           \A o \in Tasks \ {t} : Same(o)
    PROVE  Abstract!End(r, t, outcome)
BY DEF Same, Holder, Tries, Abstract!End

LEMMA Interrupts ==
    ASSUME NEW r \in Runtimes, NEW S \in SUBSET Tasks,
           \A t \in S : Holder(t) = r /\ AbstractState(t)' = "orphaned" /\ Holder(t)' = NoRuntime
                       /\ Tries(t)' = Tries(t),
           \A t \in Tasks \ S : Same(t)
    PROVE  Abstract!Interrupt(r, S)
BY DEF Same, Holder, Tries, Abstract!Interrupt

LEMMA Reclaims ==
    ASSUME NEW S \in SUBSET Tasks,
           \A t \in S : AbstractState(t) = "orphaned" /\ AbstractState(t)' = "ready"
                       /\ Holder(t)' = Holder(t) /\ Tries(t)' = Tries(t),
           \A t \in Tasks \ S : Same(t)
    PROVE  Abstract!Reclaim(S)
BY DEF Same, Holder, Tries, Abstract!Reclaim

LEMMA Submits ==
    ASSUME NEW t \in Tasks, AbstractState(t) \notin {"running", "orphaned"},
           AbstractState(t)' = "ready", Tries(t)' = 0, Holder(t)' = Holder(t),
           \A o \in Tasks \ {t} : Same(o)
    PROVE  Abstract!Submit(t)
BY DEF Same, Holder, Tries, Abstract!Submit

\* A step that leaves attempts with the last claim of their rows, and is one of
\* ExclusiveWork's or none.
Mapped == HandsOwn' /\ (Abstract!AbstractNext \/ UNCHANGED Abstract!abstractVars)

LEMMA RowEffects ==
    ASSUME NEW r \in Row, NEW w \in Runtimes, NEW n
    PROVE  /\ Completed(r).worker = NoRuntime /\ Completed(r).attempt = r.attempt
           /\ AfterFailure(r, n).worker = NoRuntime /\ AfterFailure(r, n).attempt = r.attempt
           /\ AfterFailure(r, n).status = IF n >= MaxAttempts THEN "dead" ELSE "failed"
           /\ Claimed(r, w).worker = w /\ Claimed(r, w).attempt = r.attempt + 1
           /\ MadeRetryable(r).attempt = r.attempt /\ MadeRetryable(r).worker = NoRuntime
           /\ r.status # "processing" => Enqueued(r).attempt = 0 /\ Enqueued(r).worker = NoRuntime
BY DEF Completed, AfterFailure, Claimed, MadeRetryable, Enqueued, Row

\* No row changes, and whoever was at work still is.
LEMMA RowsKept ==
    ASSUME TaskTyped, TaskTyped', HandsOwn, row' = row,
           \A t \in Tasks : /\ at'[t].phase = "idle" <=> at[t].phase = "idle"
                            /\ at'[t].attempt = at[t].attempt
    PROVE  Mapped
<1>1. \A t \in Tasks : Same(t)
  BY SameWhen
<1>2. HandsOwn'
  BY DEF HandsOwn
<1> QED BY <1>1, <1>2, Stutter DEF Mapped

\* enqueue_core_work, of a row that is being executed or of one that is not.
LEMMA EnqueueMapped ==
    ASSUME TaskTyped, TaskTyped', AtWork, HandsOwn, NEW t \in Tasks,
           row' = [row EXCEPT ![t] = Enqueued(@)],
           \A o \in Tasks : /\ at'[o].phase = "idle" <=> at[o].phase = "idle"
                            /\ at'[o].attempt = at[o].attempt
    PROVE  Mapped
<1>1. row[t] \in Row /\ row'[t] = Enqueued(row[t]) /\ \A o \in Tasks \ {t} : row'[o] = row[o]
  BY DEF TaskTyped
<1>2. CASE row[t].status = "processing"
  <2>1. row'[t] = row[t]
    BY <1>1, <1>2, StatusEffects
  <2>2. row' = row
    BY <1>1, <2>1 DEF TaskTyped
  <2> QED BY <2>2, RowsKept
<1>3. CASE row[t].status # "processing"
  <2>1. at[t].phase = "idle" /\ at'[t].phase = "idle"
    BY <1>3 DEF AtWork
  <2>2. row'[t].status = "pending" /\ row'[t].attempt = 0
    BY <1>1, <1>3, StatusEffects, RowEffects, WorkerAssumption
  <2>3. AbstractState(t) \notin {"running", "orphaned"}
    <3>1. row[t].status \in Status
      BY <1>1 DEF Row
    <3> QED BY <1>3, <2>1, <3>1, StandingOf, StandingIs
  <2>4. AbstractState(t)' = "ready" /\ Tries(t)' = 0 /\ Holder(t)' = Holder(t)
    BY <2>1, <2>2, StandingNext, StandingIs, HolderOf DEF Tries
  <2>5. \A o \in Tasks \ {t} : Same(o)
    BY <1>1, SameWhen
  <2>6. Abstract!Submit(t)
    BY <2>3, <2>4, <2>5, Submits
  <2>7. HandsOwn'
    BY <1>1, <2>1 DEF HandsOwn
  <2> QED BY <2>6, <2>7 DEF Mapped, Abstract!AbstractNext
<1> QED BY <1>2, <1>3

\* process_claimed_work: the attempt ends with the row it claimed, and gives the
\* work up only if it was the last.
LEMMA EndMapped ==
    ASSUME AttemptTyped, TaskTyped, TaskTyped', HandsOwn, NEW t \in Tasks, CloseWork(t) \/ RetryWork(t)
    PROVE  Mapped
<1>1. /\ row[t] \in Row /\ at[t].phase # "idle" /\ at'[t].phase = "idle" /\ at[t].attempt \in Nat
      /\ \A o \in Tasks \ {t} : at'[o] = at[o] /\ row'[o] = row[o]
  BY DEF CloseWork, RetryWork, Phase, Idle, AttemptTyped, TaskTyped, Hands
<1>2. row[t].worker = Coordinator /\ row[t].attempt = at[t].attempt /\ Coordinator \in Runtimes
  BY <1>1, WorkerAssumption DEF HandsOwn, Coordinator
<1>3. AbstractState(t) = "running" /\ Holder(t) = Coordinator /\ Tries(t) = at[t].attempt
  BY <1>1, <1>2, StandingOf, HolderOf DEF Tries
<1>4. \A o \in Tasks \ {t} : Same(o)
  BY <1>1, SameWhen
<1>5. HandsOwn'
  BY <1>1 DEF HandsOwn
<1>6. \E outcome \in {"ready", "finished", "abandoned"} :
        /\ AbstractState(t)' = outcome /\ row'[t].attempt = row[t].attempt
        /\ outcome = "abandoned" => at[t].attempt >= MaxAttempts
  <2>1. CASE CloseWork(t)
    <3>1. row'[t] = Completed(row[t])
      BY <2>1 DEF CloseWork, TaskTyped
    <3>2. row'[t].status = "done" /\ row'[t].attempt = row[t].attempt
      BY <1>1, <1>2, <3>1, StatusEffects, RowEffects
    <3>3. AbstractState(t)' = "finished"
      BY <1>1, <3>2, StandingNext, StandingIs
    <3> QED BY <3>2, <3>3
  <2>2. CASE RetryWork(t)
    <3>1. row'[t] = AfterFailure(row[t], at[t].attempt)
      BY <2>2 DEF RetryWork, TaskTyped
    <3>2. /\ row'[t].status = IF at[t].attempt >= MaxAttempts THEN "dead" ELSE "failed"
          /\ row'[t].attempt = row[t].attempt
      BY <1>1, <1>2, <3>1, RowEffects
    <3>3. AbstractState(t)' = IF at[t].attempt >= MaxAttempts THEN "abandoned" ELSE "ready"
      BY <1>1, <3>2, StandingNext, StandingIs
    <3> QED BY <3>2, <3>3
  <2> QED BY <2>1, <2>2
<1>7. PICK outcome \in {"ready", "finished", "abandoned"} :
        /\ AbstractState(t)' = outcome /\ row'[t].attempt = row[t].attempt
        /\ outcome = "abandoned" => at[t].attempt >= MaxAttempts
  BY <1>6
<1>8. Holder(t)' = NoRuntime /\ Tries(t)' = Tries(t)
  BY <1>1, <1>7, HolderOf DEF Tries
<1>9. Abstract!End(Coordinator, t, outcome)
  BY <1>2, <1>3, <1>4, <1>7, <1>8, Ends
<1> QED BY <1>2, <1>5, <1>9 DEF Mapped, Abstract!AbstractNext

\* run_once: the rows of a batch are claimed by one worker, which holds no others.
LEMMA StartMapped ==
    ASSUME TaskTyped, TaskTyped', HandsOwn, NEW batch \in SUBSET Due, StartBatch(batch)
    PROVE  Mapped
<1>1. Coordinator \in Runtimes
  BY WorkerAssumption DEF Coordinator
<1>2. \A t \in Tasks : at[t].phase = "idle" /\ row[t] \in Row
  BY DEF StartBatch, Busy, Phase, TaskTyped
<1>3. \A t \in Tasks :
        IF t \in batch
        THEN row'[t] = Claimed(row[t], Coordinator) /\ at'[t].phase = "start"
             /\ at'[t].attempt = row[t].attempt + 1
        ELSE row'[t] = row[t] /\ at'[t] = at[t]
  BY DEF StartBatch, Coordinator, Idle
<1>4. batch \in SUBSET Tasks /\ \A t \in batch : row[t].status \in {"pending", "failed"}
  BY DEF Due, Claimable
<1>5. ASSUME NEW t \in batch
      PROVE  /\ AbstractState(t) = "ready" /\ AbstractState(t)' = "running"
             /\ Holder(t)' = Coordinator /\ Tries(t)' = Tries(t) + 1
             /\ row'[t].worker = Coordinator /\ row'[t].attempt = at'[t].attempt
  <2>1. t \in Tasks /\ row[t] \in Row /\ row[t].status \in {"pending", "failed"}
        /\ at[t].phase = "idle" /\ at'[t].phase # "idle"
    BY <1>2, <1>3, <1>4
  <2>2. row'[t].worker = Coordinator /\ row'[t].attempt = row[t].attempt + 1
        /\ at'[t].attempt = row[t].attempt + 1
    BY <1>1, <1>3, <2>1, RowEffects
  <2> QED BY <2>1, <2>2, StandingOf, StandingNext, StandingIs, HolderOf DEF Tries
<1>6. \A t \in Tasks : Holder(t) = NoRuntime
  BY <1>2, HolderOf
<1>7. \A t \in Tasks \ batch : Same(t)
  BY <1>3, SameWhen
<1>8. Abstract!Start(Coordinator, batch)
  BY <1>1, <1>4, <1>5, <1>6, <1>7, Starts
<1>9. HandsOwn'
  BY <1>2, <1>3, <1>5 DEF HandsOwn
<1> QED BY <1>1, <1>4, <1>8, <1>9 DEF Mapped, Abstract!AbstractNext

\* The process dies with the batch in hand.
LEMMA CrashMapped ==
    ASSUME TaskTyped, TaskTyped', AtWork, HandsOwn, Crash
    PROVE  Mapped
<1>1. Coordinator \in Runtimes
  BY WorkerAssumption DEF Coordinator
<1>2. row' = row /\ \A t \in Tasks : at'[t].phase = "idle"
  BY DEF Crash, taskVars, Idle
<1>3. PICK S \in SUBSET Tasks : \A t \in Tasks : t \in S <=> at[t].phase # "idle"
  <2>1. {t \in Tasks : at[t].phase # "idle"} \in SUBSET Tasks
    OBVIOUS
  <2> QED BY <2>1
<1>4. ASSUME NEW t \in S
      PROVE  Holder(t) = Coordinator /\ AbstractState(t)' = "orphaned" /\ Holder(t)' = NoRuntime
             /\ Tries(t)' = Tries(t)
  <2>1. t \in Tasks /\ at[t].phase # "idle" /\ row'[t].status = "processing" /\ row[t].worker = Coordinator
    BY <1>2, <1>3 DEF AtWork, HandsOwn
  <2> QED BY <1>2, <2>1, StandingNext, StandingIs, HolderOf DEF Tries
<1>5. \A t \in Tasks \ S : Same(t)
  BY <1>2, <1>3, SameWhen
<1>6. Abstract!Interrupt(Coordinator, S)
  BY <1>1, <1>4, <1>5, Interrupts
<1>7. HandsOwn'
  BY <1>2 DEF HandsOwn
<1> QED BY <1>1, <1>6, <1>7 DEF Mapped, Abstract!AbstractNext

\* recover_orphaned_core_work: nobody is at work on a row that it takes back.
LEMMA RestartMapped ==
    ASSUME TaskTyped, TaskTyped', AtWork, HandsOwn, Restart
    PROVE  Mapped
<1> DEFINE S == {t \in Tasks : row[t].status = "processing"}
<1>1. at' = at /\ \A t \in Tasks : at[t].phase = "idle"
  BY DEF Restart, AtWork
<1>2. \A t \in Tasks : row'[t] = IF t \in S THEN MadeRetryable(row[t]) ELSE row[t]
  BY DEF Restart
<1>3. ASSUME NEW t \in S
      PROVE  AbstractState(t) = "orphaned" /\ AbstractState(t)' = "ready"
             /\ Holder(t)' = Holder(t) /\ Tries(t)' = Tries(t)
  <2>1. t \in Tasks /\ row[t] \in Row /\ row[t].status = "processing"
        /\ at[t].phase = "idle" /\ at'[t].phase = "idle"
    BY <1>1 DEF TaskTyped
  <2>2. row'[t].status = "failed" /\ row'[t].attempt = row[t].attempt
    BY <1>2, <2>1, StatusEffects, RowEffects, WorkerAssumption
  <2> QED BY <2>1, <2>2, StandingOf, StandingNext, StandingIs, HolderOf DEF Tries
<1>4. \A t \in Tasks \ S : Same(t)
  BY <1>1, <1>2, SameWhen
<1>5. Abstract!Reclaim(S)
  BY <1>3, <1>4, Reclaims
<1>6. HandsOwn'
  BY <1>1 DEF HandsOwn
<1> QED BY <1>5, <1>6 DEF Mapped, Abstract!AbstractNext

LEMMA MappedInitially == Init => HandsOwn /\ Abstract!AbstractInit
<1> SUFFICES ASSUME Init PROVE HandsOwn /\ Abstract!AbstractInit
  OBVIOUS
<1>1. \A t \in Tasks : at[t].phase = "idle" /\ row[t].status = "absent" /\ row[t].attempt = 0
  BY DEF Init, Idle, AbsentRow
<1>2. \A t \in Tasks : AbstractState(t) = "idle" /\ ~Executing(t)
  BY <1>1 DEF AbstractState, Executing, Phase
<1> QED BY <1>1, <1>2 DEF HandsOwn, Abstract!AbstractInit

LEMMA StepMapped == AttemptsInv /\ AttemptsInv' /\ ReviewInv /\ HandsOwn /\ [Next]_vars => Mapped
<1> SUFFICES ASSUME AttemptsInv, AttemptsInv', ReviewInv, HandsOwn, [Next]_vars PROVE Mapped
  OBVIOUS
<1>1. AttemptTyped /\ TaskTyped /\ AtWork /\ \A t \in Tasks : ReviewsAsked(t)
  BY Types DEF AttemptsInv, ReviewInv
<1>2. TaskTyped'
  BY DEF AttemptsInv, TypeOK, TaskTyped
<1>3. ASSUME NEW t \in Tasks, TaskStep(t)
      PROVE  Mapped
  <2>1. CASE MovesOn(t)
    <3>1. row' = row /\ at[t].phase # "idle" /\ at'[t].phase # "idle" /\ at'[t].attempt = at[t].attempt
          /\ \A o \in Tasks \ {t} : at'[o] = at[o]
      BY <2>1 DEF MovesOn
    <3> QED BY <1>1, <1>2, <3>1, RowsKept
  <2>2. CASE InsertResult(t)
    <3>1. PICK review \in BOOLEAN : at' = [at EXCEPT ![t].phase = "mark", ![t].review = review]
      BY <2>2 DEF InsertResult
    <3>2. at[t].phase = "finished" /\ at[t] \in Hands /\ row' = row
      BY <1>1, <2>2 DEF InsertResult, Phase, AttemptTyped
    <3>3. at'[t].phase = "mark" /\ at'[t].attempt = at[t].attempt /\ \A o \in Tasks \ {t} : at'[o] = at[o]
      BY <1>1, <3>1, <3>2 DEF AttemptTyped, Hands
    <3> QED BY <1>1, <1>2, <3>2, <3>3, RowsKept
  <2>3. CASE ReviewWork(t)
    <3>1. t \in Asked /\ ReviewOf(t) \in Tasks /\ "close" \in Phases /\ at[t].phase = "reviewWork"
      BY <1>1, <2>3, Reviews DEF ReviewsAsked, ReviewPhases, ReviewWork, Phase, Phases
    <3>2. at'[t].phase = "close" /\ at'[t].attempt = at[t].attempt /\ \A o \in Tasks \ {t} : at'[o] = at[o]
      BY <1>1, <2>3, <3>1, GotoTyped DEF ReviewWork, AttemptTyped
    <3> QED BY <1>1, <1>2, <2>3, <3>1, <3>2, EnqueueMapped DEF ReviewWork
  <2>4. CASE CloseWork(t) \/ RetryWork(t)
    BY <1>1, <1>2, <2>4, EndMapped
  <2> QED BY <1>1, <1>3, <2>1, <2>2, <2>3, <2>4, MovesOnWhen DEF TaskStep
<1>4. ASSUME NEW t \in Asked, RequestTask(t)
      PROVE  Mapped
  <2>1. CASE row' = row
    BY <1>1, <1>2, <1>4, <2>1, RowsKept DEF RequestTask
  <2>2. CASE row' = [row EXCEPT ![t] = Enqueued(@)]
    BY <1>1, <1>2, <1>4, <2>2, Reviews, EnqueueMapped DEF RequestTask
  <2> QED BY <1>4, <2>1, <2>2 DEF RequestTask
<1>5. ASSUME NEW t \in Tasks, BecomesDue(t)
      PROVE  Mapped
  <2>1. at' = at /\ \A o \in Tasks : row'[o].status = row[o].status
                       /\ row'[o].worker = row[o].worker /\ row'[o].attempt = row[o].attempt
    BY <1>1, <1>5 DEF BecomesDue, TaskTyped, Row
  <2>2. \A o \in Tasks : Same(o)
    BY <1>1, <1>2, <2>1, SameWhen
  <2>3. HandsOwn'
    BY <2>1 DEF HandsOwn
  <2> QED BY <2>2, <2>3, Stutter DEF Mapped
<1>6. CASE UNCHANGED vars
  <2>1. row' = row /\ at' = at
    BY <1>6 DEF vars, runVars, taskVars
  <2> QED BY <1>1, <1>2, <2>1, RowsKept
<1> QED BY <1>1, <1>2, <1>3, <1>4, <1>5, <1>6, StartMapped, CrashMapped, RestartMapped DEF Next

\* execute_concurrent_subagents, enqueue_conflict_review_if_needed and
\* recover_orphaned_core_work: the rows of the sub-agents' tasks are the exclusive
\* queue of ExclusiveWork, reviews asked for within a batch included.
THEOREM Refinement == Spec => ImplementsExclusiveWork
<1>1. AttemptsInv /\ AttemptsInv' /\ ReviewInv /\ HandsOwn /\ [Next]_vars =>
        HandsOwn' /\ [Abstract!AbstractNext]_(Abstract!abstractVars)
  BY StepMapped DEF Mapped
<1> QED BY <1>1, AttemptsInitially, AttemptsStep, ReviewInitially, ReviewStep, MappedInitially, PTL
        DEF Spec, ImplementsExclusiveWork, Abstract!AbstractSpec
==============================================================================
