------------------------- MODULE TerminalChat_proofs -------------------------
(***************************************************************************)
(* Proofs about TerminalChat and its server, for any requests and threads: *)
(* typing, the accounting of the stream permits, and what the composer may *)
(* be locked by and aimed at.                                              *)
(***************************************************************************)
EXTENDS TerminalChat, FiniteSetTheorems, TLAPS

(* Typing, of the server's actions first. *)

LEMMA EmitTyped ==
    ASSUME ServerTypeOK, NEW r \in Requests, NEW events \in Seq(Event), Emit(r, events)
    PROVE  channel' \in [Requests -> Seq(Event)]
<1>1. channel[r] \o events \in Seq(Event)
  BY DEF ServerTypeOK
<1> QED BY <1>1 DEF Emit, ServerTypeOK

LEMMA BecomeTyped ==
    ASSUME ServerTypeOK, NEW r \in Requests, NEW phase \in Phases, Become(r, phase)
    PROVE  chat' \in [Requests -> Chat]
BY DEF Become, ServerTypeOK, Chat

LEMMA CloseTyped ==
    ASSUME ServerTypeOK, NEW r \in Requests, Close(r)
    PROVE  /\ socket' \in [Requests -> {"none", "open", "broken", "closed"}]
           /\ streams' \in Int
BY DEF Close, ServerTypeOK

LEMMA MessageTyped ==
    ASSUME ServerTypeOK, NEW r \in Requests, NEW role \in {"user", "agent"}, AddMessage(r, role)
    PROVE  /\ talk' \in [Threads -> Seq(Message)]
           /\ thread' \in [Threads -> {"new", "open", "deleted"}]
<1> DEFINE t == chat[r].thread
<1>1. CASE t \in Threads
  <2>1. [role |-> role, of |-> r] \in Message /\ talk[t] \in Seq(Message)
    BY <1>1 DEF ServerTypeOK, Message
  <2>2. Append(talk[t], [role |-> role, of |-> r]) \in Seq(Message)
    BY <2>1
  <2> QED BY <2>2 DEF AddMessage, ServerTypeOK
<1>2. CASE t \notin Threads
  <2>1. talk' = talk
    BY <1>2 DEF AddMessage, ServerTypeOK
  <2> QED BY <2>1 DEF AddMessage, ServerTypeOK
<1> QED BY <1>1, <1>2

LEMMA TaskTyped ==
    ASSUME ServerTypeOK, NEW r \in Requests, TaskNext(r)
    PROVE  ServerTypeOK'
<1>1. CASE ResolveThread(r)
  <2>1. chat' \in [Requests -> Chat]
    <3>1. CASE Become(r, "resolved")
      BY <3>1, BecomeTyped DEF Phases
    <3>2. ASSUME NEW t \in Threads, chat' = [chat EXCEPT ![r] = [phase |-> "resolved", thread |-> t]]
          PROVE  chat' \in [Requests -> Chat]
      <4>1. [phase |-> "resolved", thread |-> t] \in Chat
        BY DEF Chat, Phases
      <4> QED BY <3>2, <4>1 DEF ServerTypeOK
    <3> QED BY <1>1, <3>1, <3>2 DEF ResolveThread, LookUp, NewThread
  <2>2. thread' \in [Threads -> {"new", "open", "deleted"}]
    BY <1>1 DEF ResolveThread, LookUp, NewThread, ServerTypeOK
  <2> QED BY <1>1, <2>1, <2>2 DEF ResolveThread, LookUp, NewThread, TaskStep, ServerTypeOK
<1>2. CASE StoreQuestion(r)
  <2>1. <<"threadReady">> \in Seq(Event)
    BY DEF Event
  <2> QED BY <1>2, <2>1, MessageTyped, BecomeTyped, EmitTyped
          DEF StoreQuestion, TaskStep, ServerTypeOK, Phases
<1>3. CASE RunAgent(r)
  BY <1>3, BecomeTyped DEF RunAgent, TaskStep, rows, ServerTypeOK, Phases
<1>4. CASE StoreAnswer(r)
  BY <1>4, MessageTyped, BecomeTyped DEF StoreAnswer, TaskStep, ServerTypeOK, Phases
<1>5. CASE Fail(r)
  <2>1. <<"error">> \in Seq(Event)
    BY DEF Event
  <2> QED BY <1>5, <2>1, BecomeTyped, EmitTyped DEF Fail, TaskStep, rows, ServerTypeOK, Phases
<1>6. CASE TellClient(r)
  <2>1. <<"completed", "done">> \in Seq(Event)
    BY DEF Event
  <2> QED BY <1>6, <2>1, BecomeTyped, EmitTyped DEF TellClient, TaskStep, rows, ServerTypeOK, Phases
<1>7. CASE Panic(r)
  BY <1>7, BecomeTyped DEF Panic, TaskStep, rows, ServerTypeOK, Phases
<1> QED BY <1>1, <1>2, <1>3, <1>4, <1>5, <1>6, <1>7 DEF TaskNext

LEMMA HandlerTyped ==
    ASSUME ServerTypeOK, NEW r \in Requests,
           \/ Refuse(r) \/ Connect(r) \/ Receive(r) \/ NoRequest(r)
           \/ Forward(r) \/ ForwardFails(r) \/ Disconnect(r)
    PROVE  ServerTypeOK'
<1>1. CASE Refuse(r)
  BY <1>1, BecomeTyped DEF Refuse, Become, rows, ServerTypeOK, Phases
<1>2. CASE Connect(r)
  <2>1. chat' \in [Requests -> Chat]
    BY <1>2, BecomeTyped DEF Connect, Become, Phases
  <2>2. streams' \in Int /\ socket' \in [Requests -> {"none", "open", "broken", "closed"}]
    BY <1>2 DEF Connect, ServerTypeOK
  <2> QED BY <1>2, <2>1, <2>2 DEF Connect, rows, ServerTypeOK
<1>3. CASE Receive(r)
  BY <1>3, BecomeTyped DEF Receive, Become, rows, ServerTypeOK, Phases
<1>4. CASE NoRequest(r)
  BY <1>4, BecomeTyped, CloseTyped DEF NoRequest, Become, rows, ServerTypeOK, Phases
<1>5. CASE Forward(r)
  <2>1. Tail(channel[r]) \in Seq(Event)
    BY <1>5 DEF Forward, ServerTypeOK
  <2> QED BY <1>5, <2>1, CloseTyped DEF Forward, rows, ServerTypeOK
<1>6. CASE ForwardFails(r)
  BY <1>6, CloseTyped DEF ForwardFails, rows, ServerTypeOK
<1>7. CASE Disconnect(r)
  BY <1>7 DEF Disconnect, rows, ServerTypeOK
<1> QED BY <1>1, <1>2, <1>3, <1>4, <1>5, <1>6, <1>7

LEMMA DeleteTyped ==
    ASSUME ServerTypeOK, NEW t \in Threads, DeleteThread(t)
    PROVE  ServerTypeOK'
BY DEF DeleteThread, TaskStep, ServerTypeOK

LEMMA PostTyped ==
    ASSUME ServerTypeOK, NEW r \in Requests, NEW t \in Threads, Post(r, t)
    PROVE  ServerTypeOK'
BY DEF Post, rows, ServerTypeOK, Chat, Phases

LEMMA RestartTyped ==
    ASSUME ServerTypeOK, Restart
    PROVE  ServerTypeOK'
<1>1. chat' \in [Requests -> Chat]
  BY ZenonT(40) DEF Restart, ServerTypeOK, Chat, Phases
<1>2. crashes' \in 0 .. CrashBudget
  BY BudgetAssumption DEF Restart, ServerTypeOK
<1>3. channel' \in [Requests -> Seq(Event)]
  BY DEF Restart
<1>4. socket' \in [Requests -> {"none", "open", "broken", "closed"}] /\ streams' \in Int
  BY DEF Restart, ServerTypeOK
<1> QED BY <1>1, <1>2, <1>3, <1>4 DEF Restart, rows, ServerTypeOK

ClientTypeOK ==
    /\ listed \subseteq Threads /\ ui \in Ui /\ waiting \subseteq Requests
    /\ calls \subseteq Call /\ replies \subseteq Reply /\ stale \in BOOLEAN

LEMMA CallsTyped ==
    /\ LoadThreads \in Call
    /\ \A t \in Threads : Delete(t) \in Call /\ Deleted(t) \in Reply
    /\ \A found \in SUBSET Threads : ThreadList(found) \in Reply
BY DEF Call, LoadThreads, Delete, Reply, Deleted, ThreadList

LEMMA ErrorTyped ==
    ASSUME TypeOK, OnError
    PROVE  ui' \in Ui /\ calls' \subseteq Call
<1>1. ui' \in Ui
  BY DEF OnError, TypeOK, Ui
<1>2. calls' \subseteq Call
  BY CallsTyped DEF OnError, TypeOK
<1> QED BY <1>1, <1>2

LEMMA EventTyped ==
    ASSUME TypeOK, NEW r \in Requests, NEW e, OnEvent(r, e)
    PROVE  ui' \in Ui /\ calls' \subseteq Call
<1>1. chat[r].thread \in Threads \cup {NoThread}
  BY DEF TypeOK, ServerTypeOK, Chat
<1>2. CASE OnThreadReady(r)
  BY <1>1, <1>2 DEF OnThreadReady, TypeOK, Ui
<1>3. CASE OnCompleted(r)
  <2>1. ui' \in Ui
    BY <1>1, <1>3 DEF OnCompleted, TypeOK, Ui
  <2>2. calls' \subseteq Call
    BY <1>3, CallsTyped DEF OnCompleted, TypeOK
  <2> QED BY <2>1, <2>2
<1>4. CASE OnDone
  BY <1>4 DEF OnDone, TypeOK, Ui
<1> QED BY <1>2, <1>3, <1>4, ErrorTyped DEF OnEvent

LEMMA StreamTyped ==
    ASSUME TypeOK, NEW r \in Requests, Streams(r)
    PROVE  TypeOK'
<1>1. CASE Opens(r)
  BY <1>1, HandlerTyped DEF Opens, TypeOK, clientVars
<1>2. CASE NotConnected(r)
  <2>1. ServerTypeOK'
    <3>1. CASE Refuse(r)
      BY <3>1, HandlerTyped DEF TypeOK
    <3>2. CASE Become(r, "ended") /\ UNCHANGED <<rows, channel, socket, streams, crashes>>
      BY <3>2, BecomeTyped DEF TypeOK, ServerTypeOK, rows, Phases
    <3> QED BY <1>2, <3>1, <3>2 DEF NotConnected
  <2>2. ui' \in Ui /\ calls' \subseteq Call
    BY <1>2, ErrorTyped DEF NotConnected
  <2> QED BY <1>2, <2>1, <2>2 DEF NotConnected, TypeOK
<1>3. CASE Delivered(r)
  BY <1>3, HandlerTyped, EventTyped DEF Delivered, TypeOK
<1>4. CASE StreamBreaks(r)
  <2>1. ui' \in Ui /\ calls' \subseteq Call
    BY <1>4, ErrorTyped DEF StreamBreaks
  <2> QED BY <1>4, <2>1 DEF StreamBreaks, TypeOK, serverVars, rows, ServerTypeOK
<1> QED BY <1>1, <1>2, <1>3, <1>4 DEF Streams

LEMMA KeyTyped ==
    ASSUME TypeOK, Keys
    PROVE  TypeOK'
<1>1. ASSUME NEW r \in Requests, SendChat(r) PROVE TypeOK'
  <2>1. ui.active \in Threads \cup {NoThread}
    BY DEF TypeOK, Ui
  <2>2. chat' \in [Requests -> Chat]
    BY <1>1, <2>1 DEF SendChat, TypeOK, ServerTypeOK, Chat
  <2>3. ui' \in Ui
    BY <1>1, <2>1 DEF SendChat, TypeOK, Ui
  <2>4. waiting' \subseteq Requests
    BY <1>1 DEF SendChat, TypeOK
  <2>5. ServerTypeOK'
    BY <1>1, <2>2 DEF SendChat, TypeOK, ServerTypeOK, rows
  <2> QED BY <1>1, <2>3, <2>4, <2>5 DEF SendChat, TypeOK
<1>2. CASE ~\E r \in Requests : SendChat(r)
  <2>1. UNCHANGED <<serverVars, listed, waiting, replies, stale>>
    BY <1>2 DEF Keys, OpenThread, ConfirmDelete, NewDraft, Refresh
  <2>2. calls' \subseteq Call
    <3>1. ASSUME NEW t \in Threads, OpenThread(t) \/ ConfirmDelete(t) PROVE calls' \subseteq Call
      BY <3>1, CallsTyped DEF OpenThread, ConfirmDelete, TypeOK
    <3>2. ASSUME NEW about \in BOOLEAN, NewDraft(about) PROVE calls' \subseteq Call
      BY <3>2 DEF NewDraft, TypeOK
    <3>3. CASE Refresh
      BY <3>3, CallsTyped DEF Refresh, TypeOK
    <3> QED BY <1>2, <3>1, <3>2, <3>3 DEF Keys
  <2>3. ui' \in Ui
    <3>1. ASSUME NEW t \in Threads, OpenThread(t) PROVE ui' \in Ui
      BY <3>1 DEF OpenThread, TypeOK, Ui
    <3>2. ASSUME NEW about \in BOOLEAN, NewDraft(about) PROVE ui' \in Ui
      BY <3>2 DEF NewDraft, Drafted, TypeOK, Ui
    <3> QED BY <1>2, <3>1, <3>2 DEF Keys, ConfirmDelete, Refresh, TypeOK
  <2> QED BY <2>1, <2>2, <2>3 DEF TypeOK, ServerTypeOK, serverVars, rows
<1> QED BY <1>1, <1>2

LEMMA CallTyped ==
    ASSUME TypeOK, Calls
    PROVE  TypeOK'
<1>1. CASE ServeThreads
  <2>1. UNCHANGED <<serverVars, listed, ui, waiting>> /\ calls' \subseteq Call
    BY <1>1 DEF ServeThreads, TypeOK
  <2>2. {t \in Threads : thread[t] = "open"} \in SUBSET Threads
    OBVIOUS
  <2>3. replies' \subseteq Reply /\ stale' \in BOOLEAN
    BY <1>1, <2>2, CallsTyped DEF ServeThreads, TypeOK
  <2> QED BY <2>1, <2>3 DEF TypeOK, ServerTypeOK, serverVars, rows
<1>2. ASSUME NEW t \in Threads, ServeDelete(t) PROVE TypeOK'
  <2>1. ServerTypeOK'
    <3>1. CASE DeleteThread(t)
      BY <3>1, DeleteTyped DEF TypeOK
    <3>2. CASE UNCHANGED serverVars
      BY <3>2 DEF TypeOK, ServerTypeOK, serverVars, rows
    <3> QED BY <1>2, <3>1, <3>2 DEF ServeDelete
  <2>2. calls' \subseteq Call /\ replies' \subseteq Reply
    BY <1>2, CallsTyped DEF ServeDelete, TypeOK
  <2> QED BY <1>2, <2>1, <2>2 DEF ServeDelete, TypeOK
<1>3. ASSUME NEW t \in Threads, DeleteFails(t) PROVE TypeOK'
  BY <1>3 DEF DeleteFails, TypeOK, ServerTypeOK, serverVars, rows
<1> QED BY <1>1, <1>2, <1>3 DEF Calls

LEMMA ResultTyped ==
    ASSUME TypeOK, Results
    PROVE  TypeOK'
<1>1. ASSUME NEW found \in SUBSET Threads, ThreadsLoaded(found) PROVE TypeOK'
  <2>1. UNCHANGED <<serverVars, waiting, calls>> /\ replies' \subseteq Reply
    BY <1>1 DEF ThreadsLoaded, TypeOK
  <2>2. listed' \subseteq Threads /\ stale' \in BOOLEAN
    BY <1>1 DEF ThreadsLoaded, OnThreadsLoaded
  <2>3. ui' = ui \/ \E t \in Threads \cup {NoThread} : ui' = [ui EXCEPT !.active = t]
    BY <1>1 DEF ThreadsLoaded, OnThreadsLoaded
  <2>4. ui' \in Ui
    BY <2>3 DEF TypeOK, Ui
  <2> QED BY <2>1, <2>2, <2>4 DEF TypeOK, ServerTypeOK, serverVars, rows
<1>2. ASSUME NEW t \in Threads, ThreadDeleted(t) PROVE TypeOK'
  <2>1. calls' \subseteq Call /\ replies' \subseteq Reply /\ listed' \subseteq Threads
    BY <1>2, CallsTyped DEF ThreadDeleted, TypeOK
  <2>2. ui' \in Ui
    BY <1>2 DEF ThreadDeleted, TypeOK, Ui
  <2> QED BY <1>2, <2>1, <2>2 DEF ThreadDeleted, TypeOK, ServerTypeOK, serverVars, rows
<1> QED BY <1>1, <1>2 DEF Results

LEMMA EnvironmentTyped ==
    ASSUME TypeOK, Environment, UNCHANGED clientVars
    PROVE  TypeOK'
BY HandlerTyped, DeleteTyped, PostTyped, RestartTyped DEF Environment, TypeOK, clientVars

LEMMA TypingStep == TypeOK /\ [Next]_vars => TypeOK'
<1> SUFFICES ASSUME TypeOK, [Next]_vars PROVE TypeOK'
  OBVIOUS
<1>1. ASSUME NEW r \in Requests, Tasks(r), UNCHANGED clientVars PROVE TypeOK'
  BY <1>1, HandlerTyped, TaskTyped DEF Tasks, TypeOK, clientVars
<1>2. CASE UNCHANGED vars
  BY <1>2 DEF vars, TypeOK, ServerTypeOK, serverVars, rows, clientVars
<1> QED BY <1>1, <1>2, KeyTyped, CallTyped, ResultTyped, StreamTyped, EnvironmentTyped DEF Next

\* Every reachable state is well typed: events, messages and permits stay what they
\* are through disconnects, timeouts, deletions and restarts of the server.
THEOREM Typing == Spec => []TypeOK
<1>1. Init => TypeOK
  <2>1. ServerInit => ServerTypeOK
    BY BudgetAssumption DEF ServerInit, ServerTypeOK, Chat, Phases
  <2>2. Init => ui \in Ui
    BY DEF Init, Ui
  <2>3. Init => calls \subseteq Call
    BY CallsTyped DEF Init
  <2> QED BY <2>1, <2>2, <2>3 DEF Init, TypeOK
<1> QED BY <1>1, TypingStep, PTL DEF Spec

------------------------------------------------------------------------------
(* The composer. A task of the server's leaves the client alone, so only keys, *)
(* results of commands and streams' events matter.                             *)

ClientNext == Keys \/ Calls \/ Results \/ \E r \in Requests : Streams(r)

LEMMA ClientOrServer ==
    ASSUME [Next]_vars
    PROVE  ClientNext \/ UNCHANGED clientVars
BY DEF Next, ClientNext, vars

LEMMA PendingStep ==
    ASSUME TypeOK, PendingHasItsStream, [Next]_vars
    PROVE  PendingHasItsStream'
<1>1. ui \in [active : Threads \cup {NoThread}, draft : BOOLEAN, pending : BOOLEAN,
              stream : Threads \cup {NoThread}]
  BY DEF TypeOK, Ui
<1>2. CASE UNCHANGED clientVars
  BY <1>2 DEF clientVars, PendingHasItsStream
<1>3. CASE Keys
  <2>1. ASSUME NEW r \in Requests, SendChat(r) PROVE waiting' # {}
    BY <2>1 DEF SendChat
  <2>2. ASSUME NEW t \in Threads, OpenThread(t) \/ ConfirmDelete(t)
        PROVE  ui'.pending = ui.pending /\ waiting' = waiting
    BY <1>1, <2>2 DEF OpenThread, ConfirmDelete
  <2>3. ASSUME NEW about \in BOOLEAN, NewDraft(about)
        PROVE  ui'.pending = ui.pending /\ waiting' = waiting
    BY <1>1, <2>3 DEF NewDraft, Drafted
  <2>4. CASE Refresh
    BY <2>4 DEF Refresh, PendingHasItsStream
  <2> QED BY <1>3, <2>1, <2>2, <2>3, <2>4 DEF Keys, PendingHasItsStream
<1>4. CASE Calls
  BY <1>4 DEF Calls, ServeThreads, ServeDelete, DeleteFails, PendingHasItsStream
<1>6. CASE Results
  <2>1. ASSUME NEW found \in SUBSET Threads, ThreadsLoaded(found)
        PROVE  ui'.pending = ui.pending /\ waiting' = waiting
    BY <1>1, <2>1 DEF ThreadsLoaded, OnThreadsLoaded
  <2>2. ASSUME NEW t \in Threads, ThreadDeleted(t)
        PROVE  ui'.pending = ui.pending /\ waiting' = waiting
    BY <1>1, <2>2 DEF ThreadDeleted
  <2> QED BY <1>6, <2>1, <2>2 DEF Results, PendingHasItsStream
<1>5. ASSUME NEW r \in Requests, Streams(r) PROVE PendingHasItsStream'
  <2>1. OnError => ~ui'.pending
    BY <1>1 DEF OnError
  <2>2. CASE Delivered(r)
    <3>1. CASE Head(channel[r]) = "done"
      BY <1>1, <2>2, <3>1 DEF Delivered, OnEvent, OnDone, PendingHasItsStream
    <3>2. CASE Head(channel[r]) = "error"
      BY <2>1, <2>2, <3>2 DEF Delivered, OnEvent, PendingHasItsStream
    <3>3. CASE Head(channel[r]) \notin {"done", "error"}
      BY <2>2, <3>3 DEF Delivered, PendingHasItsStream
    <3> QED BY <3>1, <3>2, <3>3
  <2>3. CASE Opens(r)
    BY <2>3 DEF Opens, clientVars, PendingHasItsStream
  <2> QED BY <1>5, <2>1, <2>2, <2>3 DEF Streams, NotConnected, StreamBreaks, PendingHasItsStream
<1> QED BY <1>2, <1>3, <1>4, <1>5, <1>6, ClientOrServer DEF ClientNext

\* The composer is never locked without a stream whose client task runs, however the
\* streams end and whatever the user opens, drafts or deletes meanwhile (terminal_app.rs).
THEOREM PendingHasStream == Spec => []PendingHasItsStream
<1>1. Init => PendingHasItsStream
  BY DEF Init, PendingHasItsStream
<1>2. TypeOK /\ PendingHasItsStream /\ [Next]_vars => PendingHasItsStream'
  BY PendingStep
<1> QED BY <1>1, <1>2, Typing, PTL DEF Spec

\* In draft mode no thread is active: a completed answer that arrives in it ends the
\* mode as it aims the composer.
DraftHasNoThread == ui.draft => ui.active = NoThread

LEMMA DraftStep ==
    ASSUME TypeOK, DraftHasNoThread, [Next]_vars
    PROVE  DraftHasNoThread'
<1>1. ui \in [active : Threads \cup {NoThread}, draft : BOOLEAN, pending : BOOLEAN,
              stream : Threads \cup {NoThread}]
  BY DEF TypeOK, Ui
<1>2. CASE UNCHANGED clientVars
  BY <1>2 DEF clientVars, DraftHasNoThread
<1>3. CASE Keys
  <2>1. ASSUME NEW r \in Requests, SendChat(r) PROVE DraftHasNoThread'
    BY <1>1, <2>1 DEF SendChat, DraftHasNoThread
  <2>2. ASSUME NEW t \in Threads, OpenThread(t) \/ ConfirmDelete(t) PROVE DraftHasNoThread'
    BY <1>1, <2>2 DEF OpenThread, ConfirmDelete, DraftHasNoThread
  <2>3. ASSUME NEW about \in BOOLEAN, NewDraft(about) PROVE DraftHasNoThread'
    BY <1>1, <2>3 DEF NewDraft, Drafted, DraftHasNoThread
  <2>4. CASE Refresh
    BY <2>4 DEF Refresh, DraftHasNoThread
  <2> QED BY <1>3, <2>1, <2>2, <2>3, <2>4 DEF Keys
<1>4. CASE Calls
  BY <1>4 DEF Calls, ServeThreads, ServeDelete, DeleteFails, DraftHasNoThread
<1>6. CASE Results
  <2>1. ASSUME NEW found \in SUBSET Threads, ThreadsLoaded(found) PROVE DraftHasNoThread'
    BY <1>1, <2>1 DEF ThreadsLoaded, OnThreadsLoaded, DraftHasNoThread
  <2>2. ASSUME NEW t \in Threads, ThreadDeleted(t) PROVE DraftHasNoThread'
    <3>1. t # NoThread
      BY ThreadAssumption
    <3> QED BY <1>1, <2>2, <3>1 DEF ThreadDeleted, DraftHasNoThread
  <2> QED BY <1>6, <2>1, <2>2 DEF Results
<1>5. ASSUME NEW r \in Requests, Streams(r) PROVE DraftHasNoThread'
  <2>1. OnError => DraftHasNoThread'
    BY <1>1 DEF OnError, DraftHasNoThread
  <2>2. ASSUME NEW e, OnEvent(r, e) PROVE DraftHasNoThread'
    BY <1>1, <2>1, <2>2 DEF OnEvent, OnThreadReady, OnCompleted, OnDone, DraftHasNoThread
  <2>3. CASE Opens(r)
    BY <2>3 DEF Opens, clientVars, DraftHasNoThread
  <2> QED BY <1>5, <2>1, <2>2, <2>3 DEF Streams, Delivered, NotConnected, StreamBreaks
<1> QED BY <1>2, <1>3, <1>4, <1>5, <1>6, ClientOrServer DEF ClientNext

LEMMA ActiveStep ==
    ASSUME TypeOK, DraftHasNoThread, ActiveIsListed, [Next]_vars
    PROVE  ActiveIsListed'
<1>1. ui \in [active : Threads \cup {NoThread}, draft : BOOLEAN, pending : BOOLEAN,
              stream : Threads \cup {NoThread}]
  BY DEF TypeOK, Ui
<1>2. CASE UNCHANGED clientVars
  BY <1>2 DEF clientVars, ActiveIsListed
<1>3. CASE Keys
  <2>1. ASSUME NEW r \in Requests, SendChat(r) PROVE ActiveIsListed'
    BY <1>1, <2>1 DEF SendChat, ActiveIsListed
  <2>2. ASSUME NEW t \in Threads, OpenThread(t) \/ ConfirmDelete(t) PROVE ActiveIsListed'
    BY <1>1, <2>2 DEF OpenThread, ConfirmDelete, ActiveIsListed
  <2>3. ASSUME NEW about \in BOOLEAN, NewDraft(about) PROVE ActiveIsListed'
    BY <1>1, <2>3 DEF NewDraft, Drafted, ActiveIsListed
  <2>4. CASE Refresh
    BY <2>4 DEF Refresh, ActiveIsListed
  <2> QED BY <1>3, <2>1, <2>2, <2>3, <2>4 DEF Keys
<1>4. CASE Calls
  <2>1. CASE ServeThreads
    <3>1. {t \in Threads : thread[t] = "open"} \in SUBSET Threads
      OBVIOUS
    <3> QED BY <2>1, <3>1 DEF ServeThreads, ActiveIsListed
  <2>2. ASSUME NEW t \in Threads, ServeDelete(t) \/ DeleteFails(t) PROVE ActiveIsListed'
    <3>1. /\ LoadThreads # Delete(t)
          /\ \A found \in SUBSET Threads : ThreadList(found) # Deleted(t)
      BY DEF LoadThreads, Delete, ThreadList, Deleted
    <3> QED BY <2>2, <3>1 DEF ServeDelete, DeleteFails, ActiveIsListed
  <2> QED BY <1>4, <2>1, <2>2 DEF Calls
<1>6. CASE Results
  <2>1. ASSUME NEW found \in SUBSET Threads, ThreadsLoaded(found) PROVE ActiveIsListed'
    <3>1. ui'.active \in listed' \cup {NoThread}
      BY <1>1, <2>1 DEF ThreadsLoaded, OnThreadsLoaded, DraftHasNoThread
    <3> QED BY <3>1 DEF ActiveIsListed
  <2>2. ASSUME NEW t \in Threads, ThreadDeleted(t) PROVE ActiveIsListed'
    BY <2>2 DEF ThreadDeleted, ActiveIsListed
  <2> QED BY <1>6, <2>1, <2>2 DEF Results
<1>5. ASSUME NEW r \in Requests, Streams(r) PROVE ActiveIsListed'
  <2>1. ASSUME OnError, UNCHANGED <<listed, replies, stale>> PROVE ActiveIsListed'
    BY <1>1, <2>1 DEF OnError, ActiveIsListed
  <2>2. ASSUME NEW e, OnEvent(r, e), UNCHANGED <<listed, replies, stale>> PROVE ActiveIsListed'
    BY <1>1, <2>1, <2>2 DEF OnEvent, OnThreadReady, OnCompleted, OnDone, ActiveIsListed
  <2>3. CASE Opens(r)
    BY <2>3 DEF Opens, clientVars, ActiveIsListed
  <2> QED BY <1>5, <2>1, <2>2, <2>3 DEF Streams, Delivered, NotConnected, StreamBreaks
<1> QED BY <1>2, <1>3, <1>4, <1>5, <1>6, ClientOrServer DEF ClientNext

\* The composer is aimed at a conversation of the list, or a list is on its way or could
\* not be loaded, for any number of lists, deletions and answers that overtake each
\* other (terminal_app.rs).
THEOREM ActiveThreadIsListed == Spec => []ActiveIsListed
<1> DEFINE Aimed == DraftHasNoThread /\ ActiveIsListed
<1>1. Init => Aimed
  BY DEF Init, DraftHasNoThread, ActiveIsListed
<1>2. TypeOK /\ Aimed /\ [Next]_vars => Aimed'
  BY DraftStep, ActiveStep
<1>3. Aimed => ActiveIsListed
  OBVIOUS
<1> QED BY <1>1, <1>2, <1>3, Typing, PTL DEF Spec

------------------------------------------------------------------------------
(* The permits. Of what a step does only four things touch them: a stream is *)
(* admitted, its handler returns, its client goes, the server restarts.      *)

Handlers == {r \in Requests : Handled(r)}

\* No request that waits to be sent has a handler, so Connect adds one.
UnsentIsFree == \A r \in Requests : Phase(r) = "unsent" => ~Handled(r)

StaySent == \A r \in Requests : Phase(r)' = "unsent" => Phase(r) = "unsent"

LEMMA BecomeSent ==
    ASSUME ServerTypeOK, NEW r \in Requests, NEW phase \in Phases \ {"unsent"}, Become(r, phase)
    PROVE  StaySent
BY DEF Become, StaySent, Phase, ServerTypeOK, Chat

LEMMA TaskKeepsPermits ==
    ASSUME ServerTypeOK, NEW r \in Requests, TaskNext(r)
    PROVE  StaySent /\ UNCHANGED <<socket, streams>>
<1>1. UNCHANGED <<socket, streams>>
  BY DEF TaskNext, ResolveThread, LookUp, NewThread, StoreQuestion, RunAgent, StoreAnswer,
         TellClient, Fail, Panic, TaskStep
<1>2. StaySent
  <2>1. ASSUME NEW t \in Threads, chat' = [chat EXCEPT ![r] = [phase |-> "resolved", thread |-> t]]
        PROVE  StaySent
    BY <2>1 DEF StaySent, Phase, ServerTypeOK
  <2>2. CASE \E phase \in Phases \ {"unsent"} : Become(r, phase)
    BY <2>2, BecomeSent
  <2> QED BY <2>1, <2>2 DEF TaskNext, ResolveThread, LookUp, NewThread, StoreQuestion, RunAgent,
                               StoreAnswer, TellClient, Fail, Panic, Phases
<1> QED BY <1>1, <1>2

LEMMA PermitMoves ==
    ASSUME TypeOK, [Next]_vars
    PROVE  \/ StaySent /\ UNCHANGED <<socket, streams>>
           \/ \E r \in Requests : Connect(r)
           \/ \E r \in Requests : StaySent /\ Handled(r) /\ Close(r)
           \/ \E r \in Requests : Disconnect(r)
           \/ Restart
<1> DEFINE Quiet == StaySent /\ UNCHANGED <<socket, streams>>
           Ends == \E r \in Requests : StaySent /\ Handled(r) /\ Close(r)
<1>1. chat' = chat => StaySent
  BY DEF StaySent, Phase
<1>2. CASE UNCHANGED serverVars
  BY <1>1, <1>2 DEF serverVars
<1>3. ASSUME NEW r \in Requests, Forward(r) PROVE Quiet \/ Ends
  BY <1>1, <1>3 DEF Forward, Handled
<1>4. ASSUME NEW r \in Requests, Tasks(r) PROVE Quiet \/ Ends
  <2>1. CASE Receive(r)
    <3>1. StaySent
      BY <2>1, BecomeSent DEF Receive, Become, TypeOK, Phases
    <3> QED BY <2>1, <3>1 DEF Receive
  <2>2. CASE NoRequest(r)
    <3>1. StaySent
      BY <2>2, BecomeSent DEF NoRequest, Become, TypeOK, Phases
    <3> QED BY <2>2, <3>1 DEF NoRequest, Handled
  <2>3. CASE TaskNext(r)
    BY <2>3, TaskKeepsPermits DEF TypeOK
  <2>4. CASE ForwardFails(r)
    BY <1>1, <2>4 DEF ForwardFails, Handled
  <2> QED BY <1>4, <2>1, <2>2, <2>3, <2>4 DEF Tasks
<1>5. ASSUME NEW r \in Requests, Streams(r) PROVE Quiet \/ Ends \/ Connect(r)
  <2>1. CASE NotConnected(r)
    <3>1. StaySent
      BY <2>1, BecomeSent DEF NotConnected, Refuse, Become, TypeOK, Phases
    <3> QED BY <2>1, <3>1 DEF NotConnected, Refuse
  <2>2. CASE StreamBreaks(r)
    BY <1>1, <2>2 DEF StreamBreaks, serverVars
  <2> QED BY <1>3, <1>5, <2>1, <2>2 DEF Streams, Opens, Delivered
<1>6. CASE Keys
  <2>1. ASSUME NEW r \in Requests, SendChat(r) PROVE Quiet
    <3>1. StaySent
      BY <2>1 DEF SendChat, StaySent, Phase, TypeOK, ServerTypeOK, Chat
    <3> QED BY <2>1, <3>1 DEF SendChat
  <2>2. CASE ~\E r \in Requests : SendChat(r)
    <3>1. UNCHANGED serverVars
      BY <1>6, <2>2 DEF Keys, OpenThread, ConfirmDelete, NewDraft, Refresh
    <3> QED BY <1>1, <3>1 DEF serverVars
  <2> QED BY <2>1, <2>2
<1>7. ASSUME NEW t \in Threads, DeleteThread(t) PROVE Quiet
  BY <1>1, <1>7 DEF DeleteThread, TaskStep
<1>8. CASE Calls \/ Results
  BY <1>1, <1>7, <1>8 DEF Calls, Results, ServeThreads, ServeDelete, DeleteFails, ThreadsLoaded,
                          ThreadDeleted, serverVars
<1>9. CASE Environment
  <2>1. ASSUME NEW r \in Requests, NEW t \in Threads, Post(r, t) PROVE Quiet
    <3>1. StaySent
      BY <2>1 DEF Post, StaySent, Phase, TypeOK, ServerTypeOK
    <3> QED BY <2>1, <3>1 DEF Post
  <2> QED BY <1>7, <1>9, <2>1 DEF Environment
<1> QED BY <1>2, <1>4, <1>5, <1>6, <1>8, <1>9 DEF Next, vars

PermitInv == UnsentIsFree /\ PermitsAccounted

LEMMA PermitStep ==
    ASSUME TypeOK, PermitInv, [Next]_vars
    PROVE  PermitInv'
<1>0. IsFiniteSet(Handlers)
  BY RequestAssumption, FS_Subset DEF Handlers
<1>1. /\ socket \in [Requests -> {"none", "open", "broken", "closed"}]
      /\ streams \in Int /\ streams = Cardinality(Handlers) /\ streams <= MaxStreams
      /\ MaxStreams \in Nat
  BY LimitAssumption DEF TypeOK, ServerTypeOK, PermitInv, PermitsAccounted, Handlers
<1>2. CASE StaySent /\ UNCHANGED <<socket, streams>>
  BY <1>2 DEF StaySent, PermitInv, UnsentIsFree, PermitsAccounted, Handled
<1>3. ASSUME NEW r \in Requests, Connect(r) PROVE PermitInv'
  <2>1. r \notin Handlers
    BY <1>3 DEF Connect, PermitInv, UnsentIsFree, Handlers
  <2>2. Handlers' = Handlers \cup {r}
    BY <1>1, <1>3 DEF Connect, Handlers, Handled
  <2>3. Cardinality(Handlers') = streams + 1
    BY <1>0, <1>1, <2>1, <2>2, FS_AddElement
  <2>4. PermitsAccounted'
    BY <1>1, <1>3, <2>3 DEF Connect, PermitsAccounted, Handlers
  <2>5. UnsentIsFree'
    BY <1>1, <1>3 DEF Connect, PermitInv, UnsentIsFree, Phase, Handled, TypeOK, ServerTypeOK, Chat
  <2> QED BY <2>4, <2>5 DEF PermitInv
<1>4. ASSUME NEW r \in Requests, StaySent, Handled(r), Close(r) PROVE PermitInv'
  <2>1. r \in Handlers
    BY <1>4 DEF Handlers
  <2>2. Handlers' = Handlers \ {r}
    BY <1>1, <1>4 DEF Close, Handlers, Handled
  <2>3. Cardinality(Handlers') = streams - 1
    BY <1>0, <1>1, <2>1, <2>2, FS_RemoveElement
  <2>4. PermitsAccounted'
    BY <1>1, <1>4, <2>3 DEF Close, PermitsAccounted, Handlers
  <2>5. UnsentIsFree'
    BY <1>1, <1>4 DEF Close, StaySent, PermitInv, UnsentIsFree, Handled
  <2> QED BY <2>4, <2>5 DEF PermitInv
<1>5. ASSUME NEW r \in Requests, Disconnect(r) PROVE PermitInv'
  <2>1. Handlers' = Handlers
    BY <1>1, <1>5 DEF Disconnect, Handlers, Handled
  <2>2. PermitsAccounted'
    BY <1>1, <1>5, <2>1 DEF Disconnect, PermitsAccounted, Handlers
  <2>3. UnsentIsFree'
    BY <1>1, <1>5 DEF Disconnect, PermitInv, UnsentIsFree, Phase, Handled
  <2> QED BY <2>2, <2>3 DEF PermitInv
<1>6. CASE Restart
  <2>1. \A r \in Requests : ~Handled(r)'
    BY <1>1, <1>6 DEF Restart, Handled
  <2>2. Handlers' = {}
    BY <2>1 DEF Handlers, Handled
  <2>3. PermitsAccounted'
    <3>1. Cardinality(Handlers') = 0
      BY <2>2, FS_EmptySet
    <3> QED BY <1>1, <1>6, <3>1 DEF Restart, PermitsAccounted, Handlers
  <2> QED BY <2>1, <2>3 DEF PermitInv, UnsentIsFree, Handled
<1> QED BY <1>2, <1>3, <1>4, <1>5, <1>6, PermitMoves

\* A permit for every live handler and none besides, for any number of requests and any
\* limit: neither a client that goes, nor a stream that never carries a request, nor a
\* restart leaks one or admits one too many (chat_routes.rs, ws_chat_stream).
THEOREM PermitsHold == Spec => []PermitsAccounted
<1>1. Init => PermitInv
  <2> SUFFICES ASSUME Init PROVE PermitInv
    OBVIOUS
  <2>1. \A r \in Requests : ~Handled(r)
    BY DEF Init, ServerInit, Handled
  <2>2. Handlers = {}
    BY <2>1 DEF Handlers
  <2>3. PermitsAccounted
    <3>1. Cardinality(Handlers) = 0
      BY <2>2, FS_EmptySet
    <3> QED BY <3>1, LimitAssumption DEF Init, ServerInit, PermitsAccounted, Handlers
  <2> QED BY <2>1, <2>3 DEF PermitInv, UnsentIsFree
<1>2. TypeOK /\ PermitInv /\ [Next]_vars => PermitInv'
  BY PermitStep
<1>3. PermitInv => PermitsAccounted
  BY DEF PermitInv
<1> QED BY <1>1, <1>2, <1>3, Typing, PTL DEF Spec

------------------------------------------------------------------------------
(* What a completed request leaves in its thread. Nothing but StoreQuestion and *)
(* StoreAnswer writes a message, a deletion takes them all, and of the rest of   *)
(* the system only how it moves a request matters.                              *)

Question(r) == [role |-> "user", of |-> r]
Answer(r) == [role |-> "agent", of |-> r]

\* A transcript in which every answer follows its question and appears once.
Ordered(s) ==
    \A r \in Requests, i \in DOMAIN s :
        s[i] = Answer(r)
        => /\ \E j \in 1 .. i - 1 : s[j] = Question(r)
           /\ \A j \in DOMAIN s : s[j] = s[i] => j = i

LEMMA QuestionOrdered ==
    ASSUME NEW s \in Seq(Message), Ordered(s), NEW r \in Requests
    PROVE  Ordered(Append(s, Question(r)))
<1> DEFINE s2 == Append(s, Question(r))
<1>1. Question(r) \in Message /\ \A r2 \in Requests : Question(r) # Answer(r2)
  BY DEF Question, Answer, Message
<1>2. /\ Len(s) \in Nat /\ DOMAIN s = 1 .. Len(s) /\ DOMAIN s2 = 1 .. Len(s) + 1
      /\ \A i \in DOMAIN s : s2[i] = s[i]
      /\ s2[Len(s) + 1] = Question(r)
  BY <1>1
<1> HIDE DEF s2
<1>3. SUFFICES ASSUME NEW r2 \in Requests, NEW i \in DOMAIN s2, s2[i] = Answer(r2)
               PROVE  /\ \E j \in 1 .. i - 1 : s2[j] = Question(r2)
                      /\ \A j \in DOMAIN s2 : s2[j] = s2[i] => j = i
  BY DEF Ordered, s2
<1>4. i \in DOMAIN s /\ s[i] = Answer(r2)
  BY <1>1, <1>2, <1>3
<1>5. PICK j \in 1 .. i - 1 : s[j] = Question(r2)
  BY <1>4 DEF Ordered
<1>6. s2[j] = Question(r2)
  BY <1>2, <1>4, <1>5
<1>7. \A k \in DOMAIN s2 : s2[k] = s2[i] => k = i
  BY <1>1, <1>2, <1>3, <1>4 DEF Ordered
<1> QED BY <1>5, <1>6, <1>7

LEMMA AnswerOrdered ==
    ASSUME NEW s \in Seq(Message), Ordered(s), NEW r \in Requests,
           Contains(s, Question(r)), ~Contains(s, Answer(r))
    PROVE  Ordered(Append(s, Answer(r)))
<1> DEFINE s2 == Append(s, Answer(r))
<1>1. Answer(r) \in Message
  BY DEF Answer, Message
<1>2. /\ Len(s) \in Nat /\ DOMAIN s = 1 .. Len(s) /\ DOMAIN s2 = 1 .. Len(s) + 1
      /\ \A i \in DOMAIN s : s2[i] = s[i]
      /\ s2[Len(s) + 1] = Answer(r)
  BY <1>1
<1>3. \A i \in 1 .. Len(s) : s[i] # Answer(r)
  BY DEF Contains
<1>4. PICK q \in 1 .. Len(s) : s[q] = Question(r)
  BY DEF Contains
<1> HIDE DEF s2
<1>5. SUFFICES ASSUME NEW r2 \in Requests, NEW i \in DOMAIN s2, s2[i] = Answer(r2)
               PROVE  /\ \E j \in 1 .. i - 1 : s2[j] = Question(r2)
                      /\ \A j \in DOMAIN s2 : s2[j] = s2[i] => j = i
  BY DEF Ordered, s2
<1>6. CASE i = Len(s) + 1
  <2>1. r2 = r
    BY <1>2, <1>5, <1>6 DEF Answer
  <2>2. q \in 1 .. i - 1 /\ s2[q] = Question(r2)
    BY <1>2, <1>4, <1>6, <2>1
  <2>3. \A j \in DOMAIN s2 : s2[j] = s2[i] => j = i
    BY <1>2, <1>3, <1>6
  <2> QED BY <2>2, <2>3
<1>7. CASE i # Len(s) + 1
  <2>1. i \in DOMAIN s /\ s[i] = Answer(r2)
    BY <1>2, <1>5, <1>7
  <2>2. PICK j \in 1 .. i - 1 : s[j] = Question(r2)
    BY <2>1 DEF Ordered
  <2>3. s2[j] = Question(r2)
    BY <1>2, <2>1, <2>2
  <2>4. \A k \in DOMAIN s2 : s2[k] = s2[i] => k = i
    BY <1>2, <1>3, <2>1 DEF Ordered
  <2> QED BY <2>2, <2>3, <2>4
<1> QED BY <1>6, <1>7

LEMMA AppendContains ==
    ASSUME NEW s \in Seq(Message), NEW m \in Message, NEW m2
    PROVE  Contains(Append(s, m), m2) <=> (Contains(s, m2) \/ m2 = m)
<1>1. /\ Len(s) \in Nat /\ Len(Append(s, m)) = Len(s) + 1
      /\ \A i \in 1 .. Len(s) : Append(s, m)[i] = s[i]
      /\ Append(s, m)[Len(s) + 1] = m
  OBVIOUS
<1> QED BY <1>1 DEF Contains

LEMMA EventContains ==
    ASSUME NEW s \in Seq(Event), NEW e \in Event
    PROVE  /\ Contains(s \o <<e>>, "completed") => Contains(s, "completed") \/ e = "completed"
           /\ s # <<>> /\ Contains(Tail(s), "completed") => Contains(s, "completed")
           /\ ~Contains(<<>>, "completed")
<1>1. ~Contains(<<>>, "completed")
  BY DEF Contains
<1>2. ASSUME s # <<>>, NEW i \in 1 .. Len(Tail(s))
      PROVE  i + 1 \in 1 .. Len(s) /\ Tail(s)[i] = s[i + 1]
  BY <1>2
<1>3. s # <<>> /\ Contains(Tail(s), "completed") => Contains(s, "completed")
  BY <1>2 DEF Contains
<1>4. /\ Len(s) \in Nat /\ Len(s \o <<e>>) = Len(s) + 1
      /\ \A i \in 1 .. Len(s) : (s \o <<e>>)[i] = s[i]
      /\ (s \o <<e>>)[Len(s) + 1] = e
  OBVIOUS
<1>5. Contains(s \o <<e>>, "completed") => Contains(s, "completed") \/ e = "completed"
  BY <1>4 DEF Contains
<1> QED BY <1>1, <1>3, <1>5

Told(r) == Contains(channel[r], "completed")
Begun(r) == Phase(r) \in {"resolved", "asked", "answered", "stored"}
Unanswered(r) == Phase(r) \notin {"stored", "ended"}

\* What each phase has left behind: a request that begun has its thread, which cannot be
\* a new one again; until it stores its answer no thread holds one; what it has stored is
\* in the thread if that is still there; and only an ended one tells.
Left(r) ==
    /\ Begun(r) \/ Told(r) => chat[r].thread \in Threads /\ thread[chat[r].thread] # "new"
    /\ Unanswered(r) => \A t \in Threads : ~Contains(talk[t], Answer(r))
    /\ Phase(r) \in {"asked", "answered"} /\ thread[chat[r].thread] = "open"
       => Contains(talk[chat[r].thread], Question(r))
    /\ Phase(r) = "stored" /\ thread[chat[r].thread] = "open"
       => Contains(talk[chat[r].thread], Answer(r))
    /\ Told(r) => Phase(r) = "ended"
    /\ Told(r) /\ thread[chat[r].thread] = "open" => Contains(talk[chat[r].thread], Answer(r))

TalkInv == (\A t \in Threads : Ordered(talk[t])) /\ (\A r \in Requests : Left(r))

LEMMA TalkInvSuffices == TypeOK /\ TalkInv => CompletedIsStored
<1> SUFFICES ASSUME TypeOK, TalkInv, NEW r \in Requests, NEW t \in Threads
             PROVE  /\ /\ Contains(channel[r], "completed") /\ chat[r].thread = t
                       /\ thread[t] = "open"
                       => Contains(talk[t], Answer(r))
                    /\ \A i \in DOMAIN talk[t] :
                         talk[t][i] = Answer(r)
                         => /\ \E j \in 1 .. i - 1 : talk[t][j] = Question(r)
                            /\ \A j \in DOMAIN talk[t] : talk[t][j] = talk[t][i] => j = i
  BY DEF CompletedIsStored, Answer, Question
<1>1. Left(r) /\ Ordered(talk[t])
  BY DEF TalkInv
<1> QED BY <1>1 DEF Left, Told, Ordered

\* A step that writes no message and tells nothing: each request stays, or moves to a
\* phase that asks for nothing more than the one it leaves, or drops its events.
Calm(r) ==
    /\ Told(r)' => Told(r) /\ chat'[r] = chat[r]
    /\ \/ chat'[r] = chat[r]
       \/ chat'[r].phase \in {"unsent", "waiting", "accepted"} /\ Unanswered(r)
       \/ chat'[r].phase = "ended"
       \/ /\ chat'[r].phase = "resolved" /\ Unanswered(r)
          /\ chat'[r].thread \in Threads /\ thread[chat'[r].thread] = "open"
       \/ chat'[r].phase = "answered" /\ Phase(r) = "asked" /\ chat'[r].thread = chat[r].thread

LEMMA CalmStep ==
    ASSUME TypeOK, TalkInv, UNCHANGED rows, \A r \in Requests : Calm(r)
    PROVE  TalkInv'
<1>1. UNCHANGED <<thread, talk>>
  BY DEF rows
<1>2. ASSUME NEW r \in Requests PROVE Left(r)'
  <2>1. Left(r) /\ Calm(r)
    BY DEF TalkInv
  <2> QED BY <1>1, <2>1 DEF Left, Calm, Begun, Unanswered, Told, Phase
<1> QED BY <1>1, <1>2 DEF TalkInv

LEMMA BecomeCalm ==
    ASSUME TypeOK, NEW r \in Requests, NEW phase \in {"waiting", "accepted", "ended"},
           Become(r, phase), Phase(r) # "ended", phase = "ended" \/ Unanswered(r), Left(r),
           \A r2 \in Requests : Told(r2)' => Told(r2)
    PROVE  \A r2 \in Requests : Calm(r2)
BY DEF Become, TypeOK, ServerTypeOK, Chat, Calm, Left, Unanswered, Phase

LEMMA EmitTold ==
    ASSUME TypeOK, NEW r \in Requests, NEW e \in Event \ {"completed"},
           Emit(r, <<e>>) \/ UNCHANGED channel
    PROVE  \A r2 \in Requests : Told(r2)' => Told(r2)
<1>1. channel \in [Requests -> Seq(Event)]
  BY DEF TypeOK, ServerTypeOK
<1>2. Contains(channel[r] \o <<e>>, "completed") => Contains(channel[r], "completed")
  BY <1>1, EventContains
<1> QED BY <1>1, <1>2 DEF Emit, Told

LEMMA ForwardTold ==
    ASSUME TypeOK, NEW r \in Requests, Forward(r) \/ ForwardFails(r)
    PROVE  \A r2 \in Requests : Told(r2)' => Told(r2)
<1>1. channel \in [Requests -> Seq(Event)]
  BY DEF TypeOK, ServerTypeOK
<1>2. /\ channel[r] # <<>> /\ Contains(Tail(channel[r]), "completed") => Contains(channel[r], "completed")
      /\ ~Contains(<<>>, "completed")
  BY <1>1, EventContains DEF Event
<1> QED BY <1>1, <1>2 DEF Forward, ForwardFails, Told

Quiet == UNCHANGED rows /\ \A r \in Requests : Calm(r)

LEMMA HandlerQuiet ==
    ASSUME TypeOK, TalkInv, NEW r \in Requests,
           \/ Refuse(r) \/ Connect(r) \/ Receive(r) \/ NoRequest(r)
           \/ Forward(r) \/ ForwardFails(r) \/ Disconnect(r)
    PROVE  Quiet
<1> USE DEF Quiet
<1>1. Left(r)
  BY DEF TalkInv
<1>2. UNCHANGED channel => \A r2 \in Requests : Told(r2)' => Told(r2)
  BY DEF Told
<1>3. CASE Refuse(r) \/ NoRequest(r)
  BY <1>1, <1>2, <1>3, BecomeCalm DEF Refuse, NoRequest, Become, Unanswered
<1>4. CASE Connect(r)
  BY <1>1, <1>2, <1>4, BecomeCalm DEF Connect, Become, Unanswered
<1>5. CASE Receive(r)
  BY <1>1, <1>2, <1>5, BecomeCalm DEF Receive, Become, Unanswered
<1>6. CASE Forward(r) \/ ForwardFails(r)
  BY <1>6, ForwardTold DEF Forward, ForwardFails, Calm
<1>7. CASE Disconnect(r)
  BY <1>2, <1>7 DEF Disconnect, Calm
<1> QED BY <1>3, <1>4, <1>5, <1>6, <1>7

LEMMA SendQuiet ==
    ASSUME TypeOK, TalkInv, NEW r \in Requests,
           SendChat(r) \/ \E t \in Threads : Post(r, t)
    PROVE  Quiet
<1>1. Left(r) /\ Phase(r) = "unsent"
  BY DEF TalkInv, SendChat, Post
<1>2. \A r2 \in Requests : Told(r2)' => Told(r2)
  BY DEF SendChat, Post, Told
<1>3. /\ \A r2 \in Requests \ {r} : chat'[r2] = chat[r2]
      /\ chat'[r].phase \in {"unsent", "accepted"}
  BY <1>1 DEF SendChat, Post, Phase, TypeOK, ServerTypeOK, Chat
<1>4. UNCHANGED rows
  BY DEF SendChat, Post
<1> QED BY <1>1, <1>2, <1>3, <1>4 DEF Quiet, Calm, Left, Unanswered

LEMMA RestartQuiet ==
    ASSUME TypeOK, TalkInv, Restart
    PROVE  Quiet
<1>1. \A r \in Requests : ~Told(r)'
  <2>1. ~Contains(<<>>, "completed")
    BY DEF Contains
  <2> QED BY <2>1 DEF Restart, Told
<1>2. \A r \in Requests : chat'[r] = chat[r] \/ chat'[r].phase = "ended"
  BY DEF Restart, TypeOK, ServerTypeOK, Chat
<1> QED BY <1>1, <1>2 DEF Quiet, Calm, Restart

\* A new thread is nobody's: it opens without a transcript and no request is in it.
LEMMA OpenStep ==
    ASSUME TypeOK, TalkInv, NEW r \in Requests, NEW t \in Threads,
           Phase(r) = "accepted", thread[t] = "new",
           thread' = [thread EXCEPT ![t] = "open"],
           chat' = [chat EXCEPT ![r] = [phase |-> "resolved", thread |-> t]],
           UNCHANGED <<talk, channel>>
    PROVE  TalkInv'
<1>1. /\ thread \in [Threads -> {"new", "open", "deleted"}]
      /\ chat \in [Requests -> Chat]
  BY DEF TypeOK, ServerTypeOK
<1>2. Left(r)'
  <2>1. chat'[r] = [phase |-> "resolved", thread |-> t] /\ thread'[t] = "open"
    BY <1>1
  <2>2. Left(r)
    BY DEF TalkInv
  <2> QED BY <2>1, <2>2 DEF Left, Begun, Unanswered, Told, Phase
<1>3. ASSUME NEW r2 \in Requests, r2 # r PROVE Left(r2)'
  <2>1. chat'[r2] = chat[r2] /\ Left(r2)
    BY <1>1, <1>3 DEF TalkInv
  <2>2. Begun(r2) \/ Told(r2) => chat[r2].thread # t /\ thread'[chat[r2].thread] = thread[chat[r2].thread]
    BY <1>1, <2>1 DEF Left
  <2> QED BY <2>1, <2>2 DEF Left, Begun, Unanswered, Told, Phase
<1>4. \A t2 \in Threads : Ordered(talk'[t2])
  BY DEF TalkInv
<1> QED BY <1>2, <1>3, <1>4 DEF TalkInv, Ordered

LEMMA QuestionStep ==
    ASSUME TypeOK, TalkInv, NEW r \in Requests, StoreQuestion(r)
    PROVE  TalkInv'
<1> DEFINE t == chat[r].thread
           talked == Append(talk[t], Question(r))
<1>1. Left(r) /\ Phase(r) = "resolved" /\ t \in Threads
  BY DEF TalkInv, StoreQuestion, Left, Begun
<1>2. /\ talk \in [Threads -> Seq(Message)] /\ chat \in [Requests -> Chat]
      /\ Question(r) \in Message
  BY DEF TypeOK, ServerTypeOK, Question, Message
<1>3. /\ talk' = [talk EXCEPT ![t] = talked] /\ thread' = thread
      /\ chat' = [chat EXCEPT ![r].phase = "asked"]
  BY DEF StoreQuestion, AddMessage, Become, Question
<1>4. \A r2 \in Requests : Told(r2)' => Told(r2)
  BY EmitTold DEF StoreQuestion, Event
<1>5. /\ \A t2 \in Threads, m \in Message : Contains(talk[t2], m) => Contains(talk'[t2], m)
      /\ \A t2 \in Threads, r2 \in Requests :
           Contains(talk'[t2], Answer(r2)) => Contains(talk[t2], Answer(r2))
      /\ Contains(talk'[t], Question(r))
  <2>1. \A m : Contains(talked, m) <=> Contains(talk[t], m) \/ m = Question(r)
    BY <1>1, <1>2, AppendContains
  <2>2. \A r2 \in Requests : Answer(r2) # Question(r)
    BY DEF Answer, Question
  <2>3. talk'[t] = talked /\ \A t2 \in Threads \ {t} : talk'[t2] = talk[t2]
    BY <1>1, <1>2, <1>3
  <2> HIDE DEF talked, t
  <2> QED BY <2>1, <2>2, <2>3
<1>6. \A t2 \in Threads : Ordered(talk'[t2])
  <2>1. Ordered(talked)
    BY <1>1, <1>2, QuestionOrdered DEF TalkInv
  <2> QED BY <1>1, <1>2, <1>3, <2>1 DEF TalkInv
<1>7. ASSUME NEW r2 \in Requests PROVE Left(r2)'
  <2>1. Left(r2) /\ Answer(r2) \in Message /\ Question(r2) \in Message
    BY DEF TalkInv, Answer, Question, Message
  <2>2. chat'[r2].thread = chat[r2].thread
    BY <1>2, <1>3 DEF Chat
  <2>3. CASE r2 # r
    <3>1. chat'[r2] = chat[r2]
      BY <1>2, <1>3, <2>3
    <3> QED BY <1>3, <1>4, <1>5, <2>1, <3>1 DEF Left, Begun, Unanswered, Told, Phase
  <2>4. CASE r2 = r
    <3>1. chat'[r].phase = "asked"
      BY <1>2, <1>3 DEF Chat
    <3>2. ~Told(r)'
      BY <1>1, <1>4 DEF Left
    <3> QED BY <1>1, <1>3, <1>5, <2>1, <2>2, <2>4, <3>1, <3>2 DEF Left, Begun, Unanswered, Told, Phase
  <2> QED BY <2>3, <2>4
<1> QED BY <1>6, <1>7 DEF TalkInv, Ordered

LEMMA AnswerStep ==
    ASSUME TypeOK, TalkInv, NEW r \in Requests, StoreAnswer(r)
    PROVE  TalkInv'
<1> DEFINE t == chat[r].thread
           talked == Append(talk[t], Answer(r))
<1>1. Left(r) /\ Phase(r) = "answered" /\ t \in Threads /\ thread[t] = "open"
  BY DEF TalkInv, StoreAnswer, AddMessage, Left, Begun
<1>2. /\ talk \in [Threads -> Seq(Message)] /\ chat \in [Requests -> Chat]
      /\ channel \in [Requests -> Seq(Event)] /\ Answer(r) \in Message
  BY DEF TypeOK, ServerTypeOK, Answer, Message
<1>3. /\ talk' = [talk EXCEPT ![t] = talked] /\ thread' = thread
      /\ chat' = [chat EXCEPT ![r].phase = "stored"]
      /\ channel' = channel
  BY <1>2 DEF StoreAnswer, AddMessage, Become, Answer
<1>4. /\ \A t2 \in Threads, m \in Message : Contains(talk[t2], m) => Contains(talk'[t2], m)
      /\ \A t2 \in Threads, r2 \in Requests :
           r2 # r /\ Contains(talk'[t2], Answer(r2)) => Contains(talk[t2], Answer(r2))
      /\ Contains(talk'[t], Answer(r))
  <2>1. \A m : Contains(talked, m) <=> Contains(talk[t], m) \/ m = Answer(r)
    BY <1>1, <1>2, AppendContains
  <2>2. \A r2 \in Requests : r2 # r => Answer(r2) # Answer(r)
    BY DEF Answer
  <2>3. talk'[t] = talked /\ \A t2 \in Threads \ {t} : talk'[t2] = talk[t2]
    BY <1>1, <1>2, <1>3
  <2> HIDE DEF talked, t
  <2> QED BY <2>1, <2>2, <2>3
<1>5. \A t2 \in Threads : Ordered(talk'[t2])
  <2>1. Contains(talk[t], Question(r)) /\ ~Contains(talk[t], Answer(r))
    BY <1>1 DEF Left, Unanswered
  <2>2. Ordered(talked)
    BY <1>1, <1>2, <2>1, AnswerOrdered DEF TalkInv
  <2> QED BY <1>1, <1>2, <1>3, <2>2 DEF TalkInv
<1>6. ASSUME NEW r2 \in Requests PROVE Left(r2)'
  <2>1. Left(r2) /\ Answer(r2) \in Message /\ Question(r2) \in Message
    BY DEF TalkInv, Answer, Question, Message
  <2>2. CASE r2 # r
    <3>1. chat'[r2] = chat[r2] /\ channel'[r2] = channel[r2]
      BY <1>2, <1>3, <2>2
    <3> QED BY <1>3, <1>4, <2>1, <2>2, <3>1 DEF Left, Begun, Unanswered, Told, Phase
  <2>3. CASE r2 = r
    <3>1. chat'[r].phase = "stored" /\ chat'[r].thread = t
      BY <1>2, <1>3 DEF Chat
    <3>2. ~Told(r)'
      BY <1>1, <1>3 DEF Left, Told
    <3> QED BY <1>1, <1>3, <1>4, <2>3, <3>1, <3>2 DEF Left, Begun, Unanswered, Phase
  <2> QED BY <2>2, <2>3
<1> QED BY <1>5, <1>6 DEF TalkInv, Ordered

LEMMA TellStep ==
    ASSUME TypeOK, TalkInv, NEW r \in Requests, TellClient(r)
    PROVE  TalkInv'
<1>1. Left(r) /\ Phase(r) = "stored"
  BY DEF TalkInv, TellClient
<1>2. /\ chat \in [Requests -> Chat] /\ channel \in [Requests -> Seq(Event)]
      /\ UNCHANGED <<thread, talk>>
      /\ chat' = [chat EXCEPT ![r].phase = "ended"]
      /\ \A r2 \in Requests \ {r} : channel'[r2] = channel[r2]
  BY DEF TypeOK, ServerTypeOK, TellClient, rows, Become, Emit
<1>3. ASSUME NEW r2 \in Requests PROVE Left(r2)'
  <2>1. CASE r2 # r
    <3>1. chat'[r2] = chat[r2] /\ channel'[r2] = channel[r2] /\ Left(r2)
      BY <1>2, <2>1 DEF TalkInv
    <3> QED BY <1>2, <3>1 DEF Left, Begun, Unanswered, Told, Phase
  <2>2. CASE r2 = r
    <3>1. chat'[r].phase = "ended" /\ chat'[r].thread = chat[r].thread
      BY <1>2 DEF Chat
    <3> QED BY <1>1, <1>2, <2>2, <3>1 DEF Left, Begun, Unanswered, Phase
  <2> QED BY <2>1, <2>2
<1>4. ASSUME NEW t \in Threads PROVE Ordered(talk[t])'
  <2>1. talk' = talk /\ Ordered(talk[t])
    BY <1>2 DEF TalkInv
  <2> QED BY <2>1 DEF Ordered, Answer, Question
<1> QED BY <1>3, <1>4 DEF TalkInv

LEMMA DeletionStep ==
    ASSUME TypeOK, TalkInv, NEW t \in Threads, DeleteThread(t)
    PROVE  TalkInv'
<1>1. /\ thread \in [Threads -> {"new", "open", "deleted"}] /\ talk \in [Threads -> Seq(Message)]
      /\ thread' = [thread EXCEPT ![t] = "deleted"]
      /\ talk' = [talk EXCEPT ![t] = <<>>]
      /\ UNCHANGED <<chat, channel>>
  BY DEF TypeOK, ServerTypeOK, DeleteThread
<1>2. \A m : ~Contains(<<>>, m)
  BY DEF Contains
<1>3. ASSUME NEW r \in Requests PROVE Left(r)'
  <2>1. Left(r)
    BY DEF TalkInv
  <2>2. \A t2 \in Threads : \A m : Contains(talk'[t2], m) => Contains(talk[t2], m)
    BY <1>1, <1>2
  <2>3. \A t2 \in Threads : /\ thread[t2] # "new" => thread'[t2] # "new"
                            /\ thread'[t2] = "open" => thread[t2] = "open" /\ talk'[t2] = talk[t2]
    BY <1>1
  <2> QED BY <1>1, <2>1, <2>2, <2>3 DEF Left, Begun, Unanswered, Told, Phase
<1>4. \A t2 \in Threads : Ordered(talk'[t2])
  <2>1. Ordered(<<>>)
    BY DEF Ordered
  <2> QED BY <1>1, <2>1 DEF TalkInv
<1> QED BY <1>3, <1>4 DEF TalkInv, Ordered

LEMMA TaskTalk ==
    ASSUME TypeOK, TalkInv, NEW r \in Requests, TaskNext(r)
    PROVE  TalkInv'
<1>1. Left(r) /\ chat \in [Requests -> Chat]
  BY DEF TalkInv, TypeOK, ServerTypeOK
<1>2. CASE ResolveThread(r)
  <2>1. \A r2 \in Requests : Told(r2)' => Told(r2)
    BY <1>2 DEF ResolveThread, LookUp, NewThread, Told
  <2>2. ASSUME chat[r].thread \in Threads, thread[chat[r].thread] = "open",
               Become(r, "resolved"), UNCHANGED thread
        PROVE  TalkInv'
    <3>1. UNCHANGED rows
      BY <1>2, <2>2 DEF ResolveThread, LookUp, NewThread, rows
    <3>2. \A r2 \in Requests : Calm(r2)
      BY <1>1, <1>2, <2>1, <2>2 DEF ResolveThread, LookUp, NewThread, Become, Calm, Left, Unanswered,
                                       Phase, Chat
    <3> QED BY <3>1, <3>2, CalmStep
  <2> QED BY <1>2, <2>2, OpenStep DEF ResolveThread, LookUp, NewThread
<1>3. CASE RunAgent(r)
  <2>1. \A r2 \in Requests : Told(r2)' => Told(r2)
    BY <1>3 DEF RunAgent, Told
  <2>2. \A r2 \in Requests : Calm(r2)
    BY <1>1, <1>3, <2>1 DEF RunAgent, Become, Calm, Left, Unanswered, Phase, Chat
  <2>3. UNCHANGED rows
    BY <1>3 DEF RunAgent
  <2> QED BY <2>2, <2>3, CalmStep
<1>4. CASE Fail(r) \/ Panic(r)
  <2>1. \A r2 \in Requests : Told(r2)' => Told(r2)
    BY <1>4, EmitTold DEF Fail, Panic, Event
  <2>2. \A r2 \in Requests : Calm(r2)
    BY <1>1, <1>4, <2>1, BecomeCalm DEF Fail, Panic, Executing
  <2>3. UNCHANGED rows
    BY <1>4 DEF Fail, Panic
  <2> QED BY <2>2, <2>3, CalmStep
<1> QED BY <1>2, <1>3, <1>4, QuestionStep, AnswerStep, TellStep DEF TaskNext

LEMMA TalkStep ==
    ASSUME TypeOK, TalkInv, [Next]_vars
    PROVE  TalkInv'
<1>1. Quiet => TalkInv'
  BY CalmStep DEF Quiet
<1>2. CASE UNCHANGED serverVars
  <2>1. Quiet
    BY <1>2 DEF serverVars, Quiet, Calm, Told, rows
  <2> QED BY <1>1, <2>1
<1>3. ASSUME NEW r \in Requests, Tasks(r) PROVE TalkInv'
  BY <1>1, <1>3, HandlerQuiet, TaskTalk DEF Tasks
<1>4. ASSUME NEW r \in Requests, Streams(r) PROVE TalkInv'
  <2>1. CASE NotConnected(r)
    <3>1. CASE Refuse(r)
      BY <1>1, <3>1, HandlerQuiet
    <3>2. CASE Become(r, "ended") /\ UNCHANGED <<rows, channel>>
      <4>1. \A r2 \in Requests : Told(r2)' => Told(r2)
        BY <3>2 DEF Told
      <4>2. Left(r) /\ Phase(r) # "ended"
        BY <2>1 DEF TalkInv, NotConnected
      <4>3. \A r2 \in Requests : Calm(r2)
        BY <3>2, <4>1, <4>2, BecomeCalm
      <4> QED BY <1>1, <3>2, <4>3 DEF Quiet
    <3> QED BY <2>1, <3>1, <3>2 DEF NotConnected
  <2>2. CASE StreamBreaks(r)
    BY <1>2, <2>2 DEF StreamBreaks
  <2> QED BY <1>1, <1>4, <2>1, <2>2, HandlerQuiet DEF Streams, Opens, Delivered
<1>5. CASE Keys
  <2>1. CASE ~\E r \in Requests : SendChat(r)
    BY <1>2, <1>5, <2>1 DEF Keys, OpenThread, ConfirmDelete, NewDraft, Refresh
  <2> QED BY <1>1, <2>1, SendQuiet
<1>6. CASE Calls \/ Results
  BY <1>2, <1>6, DeletionStep DEF Calls, Results, ServeThreads, ServeDelete, DeleteFails,
                                  ThreadsLoaded, ThreadDeleted
<1>7. CASE Environment
  BY <1>1, <1>7, HandlerQuiet, SendQuiet, RestartQuiet, DeletionStep DEF Environment
<1> QED BY <1>2, <1>3, <1>4, <1>5, <1>6, <1>7 DEF Next, vars

\* A client that is told its request completed finds the answer in the thread, after
\* its question and once, for any number of requests over any threads and whatever
\* disconnects, time-outs, restarts and deletions fall between (chat_routes.rs,
\* execute_chat_request).
THEOREM CompletedStays == Spec => []CompletedIsStored
<1>1. Init => TalkInv
  <2> SUFFICES ASSUME Init PROVE TalkInv
    OBVIOUS
  <2>1. \A m : ~Contains(<<>>, m)
    BY DEF Contains
  <2>2. Ordered(<<>>)
    BY DEF Ordered
  <2>3. /\ \A t \in Threads : talk[t] = <<>>
        /\ \A r \in Requests : channel[r] = <<>> /\ chat[r].phase = "unsent"
    BY DEF Init, ServerInit
  <2>4. \A r \in Requests : Left(r)
    BY <2>1, <2>3 DEF Left, Begun, Unanswered, Told, Phase
  <2> QED BY <2>2, <2>3, <2>4 DEF TalkInv
<1>2. TypeOK /\ TalkInv /\ [Next]_vars => TalkInv'
  BY TalkStep
<1> QED BY <1>1, <1>2, Typing, TalkInvSuffices, PTL DEF Spec
==============================================================================
