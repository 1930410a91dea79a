------------------------------ MODULE AgentGate ------------------------------
(***************************************************************************)
(* The gate in front of a run of the mail-assistant (AgentHarness), beside *)
(* the core runtime that prepares the mailbox (CorePipeline): an agent     *)
(* started from the command line polls the database until nothing is       *)
(* missing and asks the core for what is; the agent of a chat asks once    *)
(* and goes on with what there is.                                         *)
(*                                                                         *)
(* The polls' delays are left out.  So is the answer "still preparing":    *)
(* only chats get it, and they no longer wait.                             *)
(***************************************************************************)
EXTENDS CorePipeline, Integers

CONSTANTS StablePolls,      \* stable_polls_required
          RequestWork       \* request_work

ASSUME PollAssumption == StablePolls \in Nat \ {0} /\ RequestWork \in BOOLEAN

VARIABLES gate,     \* the agent's run up to its loop
          before    \* history: the mail known at the gate's last poll

gateVars == <<gate, before>>
allVars == <<vars, gateVars>>

GateTypes == {"sync_full", "sync_body", "analyze", "locate"}
NoCount == -1

\* count: prev_email_count; todo: work still to be asked for after this poll.
Gate == [phase : {"idle", "polling", "requesting", "open"}, chat : BOOLEAN,
         count : {NoCount} \cup (0 .. Cardinality(Mail)), stable : 0 .. StablePolls,
         todo : Seq(GateTypes), requested : SUBSET GateTypes]
Closed == [phase |-> "idle", chat |-> FALSE, count |-> NoCount, stable |-> 0,
           todo |-> <<>>, requested |-> {}]

GateTypeOK == TypeOK /\ gate \in Gate /\ before \subseteq Mail

GateInit == Init /\ gate = Closed /\ before = {}

AgentStarts(chat) ==
    /\ gate.phase = "idle"
    /\ gate' = [Closed EXCEPT !.phase = "polling", !.chat = chat]
    /\ UNCHANGED <<vars, before>>

\* has_active_backlog
Backlog(backfill) ==
    backfill \/ BodyMissing # {} \/ AnalysisMissing # {} \/ LocationMissing # {}

\* classify_db_prerequisite_work, of which only what was not asked for is taken.
Prerequisites(backfill, asked) ==
    If(backfill /\ "sync_full" \notin asked, "sync_full")
    \o If(BodyMissing # {} /\ "sync_body" \notin asked, "sync_body")
    \o If(AnalysisMissing # {} /\ "analyze" \notin asked, "analyze")
    \o If(LocationMissing # {} /\ "locate" \notin asked, "locate")

ToRequest(backfill) == IF RequestWork THEN Prerequisites(backfill, gate.requested) ELSE <<>>

\* Mutant of Stable: polls are counted whatever they saw.
StableAnyway(count) == IF gate.stable < StablePolls THEN gate.stable + 1 ELSE gate.stable

\* Mutant: the count never moves past the first poll.
StableNever(count) == 1

\* How many polls in a row saw this many messages, as far as it matters.
Stable(count) ==
    IF gate.count # count THEN 1
    ELSE IF gate.stable < StablePolls THEN gate.stable + 1 ELSE gate.stable

\* is_snapshot_ready
Ready(backfill, count) == ~Backlog(backfill) /\ Stable(count) >= StablePolls

\* wait_for_db_completeness: one snapshot; the gate opens, or what is missing and
\* was not asked for by this run is.
Poll ==
    /\ gate.phase = "polling" /\ ~gate.chat
    /\ before' = Known
    /\ \E backfill \in BackfillChoices :
         LET count == Cardinality(Known)
             ready == Ready(backfill, count)
         IN  gate' = [gate EXCEPT !.count = count, !.stable = Stable(count),
                        !.phase = IF ready THEN "open" ELSE "requesting",
                        !.todo = IF ready THEN <<>> ELSE ToRequest(backfill)]
    /\ UNCHANGED vars

\* attach_mailbox_preparation_context
Attach ==
    /\ gate.phase = "polling" /\ gate.chat
    /\ \E backfill \in BackfillChoices :
         gate' = [gate EXCEPT !.phase = "requesting", !.todo = ToRequest(backfill)]
    /\ UNCHANGED <<vars, before>>

\* request_db_prerequisite_work: no look at active work of the type under another
\* key; what fails counts as asked for.
Request ==
    /\ gate.phase = "requesting" /\ gate.todo # <<>>
    /\ LET type == Head(gate.todo) IN
         /\ gate' = [gate EXCEPT !.todo = Tail(@), !.requested = @ \cup {type}]
         /\ Upsert(<<type, "agent">>) \/ UNCHANGED <<rows, queue>>
    /\ UNCHANGED <<mailVars, heartbeatRecent, coreVars, background, planVars, fileApply, faults,
                   before>>

\* All is asked for: a chat goes on, the others sleep until the next poll.
Continue ==
    /\ gate.phase = "requesting" /\ gate.todo = <<>>
    /\ gate' = [gate EXCEPT !.phase = IF gate.chat THEN "open" ELSE "polling"]
    /\ UNCHANGED <<vars, before>>

\* The run is over: max_wait has passed, an error, or after its loop.
AgentEnds ==
    /\ gate.phase # "idle"
    /\ gate' = Closed /\ before' = {}
    /\ UNCHANGED vars

GateStep == Poll \/ Attach \/ Request \/ Continue

GateNext ==
    \/ Next /\ UNCHANGED gateVars
    \/ \E chat \in BOOLEAN : AgentStarts(chat)
    \/ GateStep \/ AgentEnds

GateSpec == GateInit /\ [][GateNext]_allVars /\ Fairness /\ WF_allVars(GateStep)

------------------------------------------------------------------------------
(* Properties *)

\* The gate opens on a mailbox at rest: at the poll that opens it nothing known
\* lacks its body, its analysis or its location, and no message has come since the
\* poll before, whatever syncs ran between the two.
OpensAtRest ==
    [][~gate.chat /\ gate.phase = "polling" /\ gate'.phase = "open" =>
         /\ MailAt({"bodyless", "ready", "backoff", "unlocated", "unlocatable"}) = {}
         /\ Known = before]_allVars

\* The core clears everything the gate looks at: a mailbox whose mail has all come
\* opens the gate, whatever is lost of the requests, unless the wait is cut short, the
\* core is down or there is mail the location agent fails on for good.
GateOpens ==
    gate.phase \in {"polling", "requesting"} /\ Known = Mail
        ~> \/ gate.phase \in {"open", "idle"} \/ core = "down"
           \/ MailAt({"unlocatable"}) # {}
=============================================================================
