-------------------------- MODULE AgentGate_proofs --------------------------
(***************************************************************************)
(* Proofs about AgentGate: for any finite mail, beside any planning, pass, *)
(* crash and background sync of the core, the gate of an agent that wants  *)
(* at least two equal polls opens on a mailbox at rest; what the agent asks *)
(* for leaves the row in execution as it is.                               *)
(***************************************************************************)
EXTENDS AgentGate, CorePipeline_proofs, FiniteSetTheorems

\* The mail of the last poll is still known, and the count is of it.
Counted ==
    /\ before \subseteq Known
    /\ gate.count = NoCount \/ gate.count = Cardinality(before)

\* Of the gate's record only the phase and the count matter here.
Shaped == {"phase", "count"} \subseteq DOMAIN gate

GateInv == StageTyped /\ Shaped /\ Counted

\* The gate of a run that is not a chat's opens on a mailbox at rest.
AtRest ==
    ~gate.chat /\ gate.phase = "polling" /\ gate'.phase = "open" =>
        /\ MailAt({"bodyless", "ready", "backoff", "unlocated", "unlocatable"}) = {}
        /\ Known = before

LEMMA KnownMail == Known \in SUBSET Mail
BY DEF Known, MailAt

\* Whatever the core does, known mail stays known.
LEMMA KnownStays ==
    ASSUME StageTyped, [Next]_vars
    PROVE  StageTyped' /\ Known \subseteq Known'
<1>1. StageTyped' /\ MailMoves
  BY MailStep
<1> QED BY <1>1 DEF MailMoves, StageTyped, Known, MailAt, Stages

LEMMA KnownUnchanged ==
    ASSUME UNCHANGED mailVars
    PROVE  Known' = Known /\ (StageTyped => StageTyped')
BY DEF mailVars, Known, MailAt, StageTyped

\* No backlog: nothing known lacks its body, its analysis or its location.
LEMMA NoBacklog ==
    ASSUME NEW backfill, ~Backlog(backfill)
    PROVE  MailAt({"bodyless", "ready", "backoff", "unlocated", "unlocatable"}) = {}
BY DEF Backlog, BodyMissing, AnalysisMissing, LocationMissing, MailAt

\* Two equal counts of a set that only grows are counts of the same set.
LEMMA SameMail ==
    ASSUME IsFiniteSet(Mail), StablePolls >= 2, Counted,
           Stable(Cardinality(Known)) >= StablePolls
    PROVE  Known = before
<1>1. IsFiniteSet(Known) /\ Cardinality(Known) \in Nat
  BY KnownMail, FS_Subset, FS_CardinalityType
<1>2. gate.count = Cardinality(Known)
  BY PollAssumption DEF Stable
<1>3. Cardinality(before) = Cardinality(Known)
  BY <1>1, <1>2 DEF Counted, NoCount
<1> QED BY <1>1, <1>3, FS_Subset DEF Counted

LEMMA GateStepKeeps ==
    ASSUME IsFiniteSet(Mail), StablePolls >= 2, GateInv, [GateNext]_allVars
    PROVE  GateInv' /\ [AtRest]_allVars
<1>1. CASE Next /\ UNCHANGED gateVars
  <2>1. StageTyped' /\ Known \subseteq Known'
    BY <1>1, KnownStays DEF GateInv
  <2> QED BY <1>1, <2>1 DEF gateVars, GateInv, Shaped, Counted, AtRest
<1>2. ASSUME NEW chat \in BOOLEAN, AgentStarts(chat) PROVE GateInv' /\ AtRest
  <2>1. UNCHANGED <<mailVars, before>> /\ gate' = [Closed EXCEPT !.phase = "polling", !.chat = chat]
    BY <1>2 DEF AgentStarts, vars
  <2>2. Known' = Known /\ StageTyped'
    BY <2>1, KnownUnchanged DEF GateInv
  <2>3. Shaped' /\ gate'.count = NoCount /\ gate'.phase = "polling"
    BY <2>1 DEF Closed, Shaped
  <2> QED BY <2>1, <2>2, <2>3 DEF GateInv, Counted, AtRest
<1>3. CASE Poll
  <2>1. UNCHANGED mailVars /\ before' = Known
    BY <1>3 DEF Poll, vars
  <2>2. Known' = Known /\ StageTyped'
    BY <2>1, KnownUnchanged DEF GateInv
  <2>3. PICK backfill \in BackfillChoices :
          LET count == Cardinality(Known)
              ready == Ready(backfill, count)
          IN  gate' = [gate EXCEPT !.count = count, !.stable = Stable(count),
                         !.phase = IF ready THEN "open" ELSE "requesting",
                         !.todo = IF ready THEN <<>> ELSE ToRequest(backfill)]
    BY <1>3 DEF Poll
  <2>4. Shaped' /\ gate'.count = Cardinality(Known)
    BY <2>3 DEF GateInv, Shaped
  <2>5. gate'.phase = "open" => Ready(backfill, Cardinality(Known))
    BY <2>3 DEF GateInv, Shaped
  <2>6. AtRest
    BY <2>5, NoBacklog, SameMail DEF AtRest, Ready, GateInv
  <2> QED BY <2>1, <2>2, <2>4, <2>6 DEF GateInv, Counted
<1>4. CASE Attach
  <2>1. UNCHANGED <<mailVars, before>> /\ gate.chat
    BY <1>4 DEF Attach, vars
  <2>2. Known' = Known /\ StageTyped'
    BY <2>1, KnownUnchanged DEF GateInv
  <2>3. Shaped' /\ gate'.count = gate.count
    BY <1>4 DEF Attach, GateInv, Shaped
  <2> QED BY <2>1, <2>2, <2>3 DEF GateInv, Counted, AtRest
<1>5. CASE Request
  <2>1. UNCHANGED <<mailVars, before>> /\ gate.phase = "requesting"
    BY <1>5 DEF Request
  <2>2. Known' = Known /\ StageTyped'
    BY <2>1, KnownUnchanged DEF GateInv
  <2>3. Shaped' /\ gate'.count = gate.count
    BY <1>5 DEF Request, GateInv, Shaped
  <2> QED BY <2>1, <2>2, <2>3 DEF GateInv, Counted, AtRest
<1>6. CASE Continue
  <2>1. UNCHANGED <<mailVars, before>> /\ gate.phase = "requesting"
    BY <1>6 DEF Continue, vars
  <2>2. Known' = Known /\ StageTyped'
    BY <2>1, KnownUnchanged DEF GateInv
  <2>3. Shaped' /\ gate'.count = gate.count
    BY <1>6 DEF Continue, GateInv, Shaped
  <2> QED BY <2>1, <2>2, <2>3 DEF GateInv, Counted, AtRest
<1>7. CASE AgentEnds
  <2>1. UNCHANGED mailVars /\ before' = {} /\ gate' = Closed
    BY <1>7 DEF AgentEnds, vars
  <2>2. Known' = Known /\ StageTyped'
    BY <2>1, KnownUnchanged DEF GateInv
  <2> QED BY <2>1, <2>2 DEF GateInv, Shaped, Counted, AtRest, Closed
<1>8. CASE UNCHANGED allVars
  <2>1. UNCHANGED <<mailVars, gate, before>>
    BY <1>8 DEF allVars, gateVars, vars
  <2>2. Known' = Known /\ StageTyped'
    BY <2>1, KnownUnchanged DEF GateInv
  <2> QED BY <1>8, <2>1, <2>2 DEF GateInv, Shaped, Counted
<1> QED BY <1>1, <1>2, <1>3, <1>4, <1>5, <1>6, <1>7, <1>8 DEF GateNext, GateStep

\* An agent that asks for two or more equal polls starts on a mailbox at rest:
\* nothing known lacks its body, its analysis or its location, and nothing has come
\* since the poll before, for any finite mail and whatever the core does meanwhile.
THEOREM OpensOnRest ==
    StablePolls >= 2 /\ IsFiniteSet(Mail) => (GateSpec => OpensAtRest)
<1> SUFFICES ASSUME StablePolls >= 2, IsFiniteSet(Mail)
             PROVE  GateSpec => OpensAtRest
  OBVIOUS
<1>1. GateInit => GateInv
  BY DEF GateInit, Init, Closed, GateInv, StageTyped, Stages, Shaped, Counted
<1>2. GateInv /\ [GateNext]_allVars => GateInv' /\ [AtRest]_allVars
  BY GateStepKeeps
<1> QED BY <1>1, <1>2, PTL DEF GateSpec, OpensAtRest, AtRest

------------------------------------------------------------------------------
(* Typing. *)

\* Every reachable gate is a record of Gate, beside a typed core.
GateTypeInv == TypeInv /\ gate \in Gate /\ before \in SUBSET Mail

LEMMA ToRequestTyped ==
    ASSUME NEW backfill
    PROVE  ToRequest(backfill) \in Seq(GateTypes)
<1> DEFINE asked == gate.requested
<1>1. If(backfill /\ "sync_full" \notin asked, "sync_full") \in Seq(GateTypes)
  BY IfTyped DEF GateTypes
<1>2. If(BodyMissing # {} /\ "sync_body" \notin asked, "sync_body") \in Seq(GateTypes)
  BY IfTyped DEF GateTypes
<1>3. If(AnalysisMissing # {} /\ "analyze" \notin asked, "analyze") \in Seq(GateTypes)
  BY IfTyped DEF GateTypes
<1>4. If(LocationMissing # {} /\ "locate" \notin asked, "locate") \in Seq(GateTypes)
  BY IfTyped DEF GateTypes
<1>5. Prerequisites(backfill, asked) \in Seq(GateTypes)
  BY <1>1, <1>2, <1>3, <1>4, ConcatTyped DEF Prerequisites
<1> QED BY <1>5 DEF ToRequest

LEMMA ClosedTyped == Closed \in Gate
<1>1. NoCount \in {NoCount} \cup (0 .. Cardinality(Mail)) /\ 0 \in 0 .. StablePolls
  BY PollAssumption
<1>2. <<>> \in Seq(GateTypes)
  OBVIOUS
<1> QED BY <1>1, <1>2 DEF Closed, Gate

LEMMA CountTyped ==
    ASSUME IsFiniteSet(Mail)
    PROVE  Cardinality(Known) \in 0 .. Cardinality(Mail)
BY KnownMail, FS_Subset, FS_CardinalityType

LEMMA StableTyped ==
    ASSUME gate \in Gate, NEW count
    PROVE  Stable(count) \in 0 .. StablePolls
<1>1. gate.stable \in 0 .. StablePolls
  BY DEF Gate
<1> QED BY <1>1, PollAssumption DEF Stable

\* A step of the gate that leaves the core alone.
LEMMA CoreUntouched ==
    ASSUME GateTypeInv, UNCHANGED vars
    PROVE  TypeInv'
BY TypeStep DEF GateTypeInv

LEMMA RequestTyped ==
    ASSUME GateTypeInv, Request
    PROVE  GateTypeInv'
<1> DEFINE type == Head(gate.todo)
<1>1. gate.todo \in Seq(GateTypes) /\ gate.todo # <<>> /\ gate.requested \subseteq GateTypes
  BY DEF GateTypeInv, Gate, Request
<1>2. type \in GateTypes /\ Tail(gate.todo) \in Seq(GateTypes)
  BY <1>1, TailTyped
<1>3. gate' = [gate EXCEPT !.todo = Tail(@), !.requested = @ \cup {type}]
  BY DEF Request
<1>4. gate' \in Gate
  BY <1>1, <1>2, <1>3 DEF GateTypeInv, Gate
<1>5. <<type, "agent">> \in RowIds
  BY <1>2, PlannedRows DEF GateTypes
<1>6. /\ Upsert(<<type, "agent">>) \/ UNCHANGED <<rows, queue>>
      /\ UNCHANGED <<stage, tries, unembedded, heartbeatRecent, core, doing, result, background,
                     plan, checked, fileApply, faults, before>>
  BY DEF Request, mailVars, coreVars, planVars
<1>7. /\ QueueTyped'
      /\ \A id \in RowIds : rows[id].status = "processing" => rows'[id] = rows[id]
  BY <1>5, <1>6, UpsertTyped, QueueUnchanged DEF GateTypeInv, TypeInv, RowsInv
<1>8. ControlTyped' /\ DoingHeld'
  BY <1>6, <1>7 DEF GateTypeInv, TypeInv, RowsInv, ControlTyped, DoingHeld
<1>9. MailInv' /\ PlansTyped'
  BY <1>6 DEF GateTypeInv, TypeInv, MailInv, MailTyped, StageTyped, TriesLeft, PlansTyped
<1> QED BY <1>4, <1>6, <1>7, <1>8, <1>9 DEF GateTypeInv, TypeInv, RowsInv

LEMMA GateTypeStep ==
    ASSUME IsFiniteSet(Mail), GateTypeInv, [GateNext]_allVars
    PROVE  GateTypeInv'
<1>1. CASE Next /\ UNCHANGED gateVars
  BY <1>1, TypeStep DEF GateTypeInv, gateVars
<1>2. ASSUME NEW chat \in BOOLEAN, AgentStarts(chat) PROVE GateTypeInv'
  <2>1. gate' \in Gate
    BY <1>2, ClosedTyped DEF AgentStarts, Gate
  <2> QED BY <1>2, <2>1, CoreUntouched DEF AgentStarts, GateTypeInv
<1>3. CASE Poll
  <2>1. PICK backfill \in BackfillChoices :
          LET count == Cardinality(Known)
              ready == Ready(backfill, count)
          IN  gate' = [gate EXCEPT !.count = count, !.stable = Stable(count),
                         !.phase = IF ready THEN "open" ELSE "requesting",
                         !.todo = IF ready THEN <<>> ELSE ToRequest(backfill)]
    BY <1>3 DEF Poll
  <2>2. PICK todo \in Seq(GateTypes), phase \in {"open", "requesting"} :
          gate' = [gate EXCEPT !.count = Cardinality(Known), !.stable = Stable(Cardinality(Known)),
                               !.phase = phase, !.todo = todo]
    <3>1. CASE Ready(backfill, Cardinality(Known))
      <4>1. <<>> \in Seq(GateTypes)
        OBVIOUS
      <4> QED BY <2>1, <3>1, <4>1, Zenon
    <3>2. CASE ~Ready(backfill, Cardinality(Known))
      <4>1. ToRequest(backfill) \in Seq(GateTypes)
        BY ToRequestTyped
      <4> QED BY <2>1, <3>2, <4>1, Zenon
    <3> QED BY <3>1, <3>2
  <2>3. gate' \in Gate
    <3>1. gate \in Gate
      BY DEF GateTypeInv
    <3>2. Cardinality(Known) \in {NoCount} \cup (0 .. Cardinality(Mail))
      BY CountTyped
    <3>3. Stable(Cardinality(Known)) \in 0 .. StablePolls
      BY <3>1, StableTyped
    <3> QED BY <2>2, <3>1, <3>2, <3>3 DEF Gate
  <2> QED BY <1>3, <2>3, CoreUntouched, KnownMail DEF Poll, GateTypeInv
<1>4. CASE Attach
  <2>1. PICK todo \in Seq(GateTypes) : gate' = [gate EXCEPT !.phase = "requesting", !.todo = todo]
    BY <1>4, ToRequestTyped DEF Attach
  <2>2. gate' \in Gate
    BY <2>1 DEF GateTypeInv, Gate
  <2> QED BY <1>4, <2>2, CoreUntouched DEF Attach, GateTypeInv
<1>5. CASE Request
  BY <1>5, RequestTyped
<1>6. CASE Continue
  <2>1. PICK phase \in {"open", "polling"} : gate' = [gate EXCEPT !.phase = phase]
    BY <1>6 DEF Continue
  <2>2. gate' \in Gate
    BY <2>1 DEF GateTypeInv, Gate
  <2> QED BY <1>6, <2>2, CoreUntouched DEF Continue, GateTypeInv
<1>7. CASE AgentEnds
  BY <1>7, ClosedTyped, CoreUntouched DEF AgentEnds, GateTypeInv
<1>8. CASE UNCHANGED allVars
  BY <1>8, CoreUntouched DEF allVars, gateVars, GateTypeInv
<1> QED BY <1>1, <1>2, <1>3, <1>4, <1>5, <1>6, <1>7, <1>8 DEF GateNext, GateStep

\* Beside any core, for any finite mail, the gate keeps its type: its count is one of the
\* mail's, and the rows it asks for are rows of the queue.
THEOREM GateTyping == IsFiniteSet(Mail) => (GateSpec => []GateTypeOK)
<1> SUFFICES ASSUME IsFiniteSet(Mail)
             PROVE  GateSpec => []GateTypeOK
  OBVIOUS
<1>1. GateInit => GateTypeInv
  BY InitTyped, ClosedTyped DEF GateInit, GateTypeInv
<1>2. GateTypeInv /\ [GateNext]_allVars => GateTypeInv'
  BY GateTypeStep
<1>3. GateTypeInv => GateTypeOK
  BY TypeInvTypes DEF GateTypeInv, GateTypeOK
<1> QED BY <1>1, <1>2, <1>3, PTL DEF GateSpec

\* An agent asks for work under a key of its own and looks at no other row; even so, the
\* row in execution stays claimed and is not due again before its outcome is written.
THEOREM ExecutionKeepsItsRowBesideAgents ==
    IsFiniteSet(Mail) => (GateSpec => []ExecutingRowIsProcessing)
<1> SUFFICES ASSUME IsFiniteSet(Mail)
             PROVE  GateSpec => []ExecutingRowIsProcessing
  OBVIOUS
<1>1. GateInit => GateTypeInv
  BY InitTyped, ClosedTyped DEF GateInit, GateTypeInv
<1>2. GateTypeInv /\ [GateNext]_allVars => GateTypeInv'
  BY GateTypeStep
<1>3. GateTypeInv => ExecutingRowIsProcessing
  BY DEF GateTypeInv, TypeInv, RowsInv, QueueTyped, DoingHeld, ExecutingRowIsProcessing
<1> QED BY <1>1, <1>2, <1>3, PTL DEF GateSpec
=============================================================================
