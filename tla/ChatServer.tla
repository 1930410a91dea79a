----------------------------- MODULE ChatServer -----------------------------
(***************************************************************************)
(* The chat half of the local API: the threads and messages it keeps, the  *)
(* requests it executes, and the sockets it streams their events over.     *)
(*                                                                         *)
(* A streamed request is two tasks. The socket's handler holds one of the  *)
(* permits and forwards events; a task it spawns executes the request and  *)
(* fills the channel between them, and outlives the handler when the       *)
(* client goes. A posted request is executed by its handler alone.         *)
(***************************************************************************)
EXTENDS Integers, FiniteSets, Sequences, SequencesExt

CONSTANTS Requests, Threads, NoThread,
          OldThreads,       \* the threads there are at the start
          MaxStreams,       \* DEFAULT_MAX_CONCURRENT_CHAT_STREAMS
          CrashBudget       \* bound on restarts of the server, for TLC

ASSUME LimitAssumption == MaxStreams \in Nat \ {0}
ASSUME RequestAssumption == IsFiniteSet(Requests)
ASSUME BudgetAssumption == CrashBudget \in Nat
ASSUME ThreadAssumption == NoThread \notin Threads /\ OldThreads \subseteq Threads

VARIABLES thread,     \* conversation_threads: "new" ids have no row yet
          talk,       \* conversation_messages of each thread, oldest first
          chat,       \* each request as its task executes it
          channel,    \* the events between a request's task and its handler
          socket,     \* each request's websocket, as the handler sees it
          streams,    \* active_chat_streams
          crashes

serverVars == <<thread, talk, chat, channel, socket, streams, crashes>>
rows == <<thread, talk>>

Phases == {"unsent", "waiting", "accepted", "resolved", "asked", "answered", "stored", "ended"}
Chat == [phase : Phases, thread : Threads \cup {NoThread}]
Message == [role : {"user", "agent"}, of : Requests]
Event == {"threadReady", "completed", "done", "error"}

ServerTypeOK ==
    /\ thread \in [Threads -> {"new", "open", "deleted"}]
    /\ talk \in [Threads -> Seq(Message)]
    /\ chat \in [Requests -> Chat]
    /\ channel \in [Requests -> Seq(Event)]
    /\ socket \in [Requests -> {"none", "open", "broken", "closed"}]
    /\ streams \in Int /\ crashes \in 0 .. CrashBudget

ServerInit ==
    /\ thread = [t \in Threads |-> IF t \in OldThreads THEN "open" ELSE "new"]
    /\ talk = [t \in Threads |-> <<>>]
    /\ chat = [r \in Requests |-> [phase |-> "unsent", thread |-> NoThread]]
    /\ channel = [r \in Requests |-> <<>>]
    /\ socket = [r \in Requests |-> "none"]
    /\ streams = 0 /\ crashes = 0

------------------------------------------------------------------------------
(* Admission: the rate limiter and the stream permits. *)

Phase(r) == chat[r].phase
Handled(r) == socket[r] \in {"open", "broken"}

\* The limiter has admitted DEFAULT_MAX_CHAT_REQUESTS_PER_WINDOW within its window, at
\* any time for all the model knows, or no permit is left.
Refuse(r) ==
    /\ Phase(r) = "unsent"
    /\ chat' = [chat EXCEPT ![r].phase = "ended"]
    /\ UNCHANGED <<rows, channel, socket, streams, crashes>>

\* ws_chat_stream: the handler takes a permit, sends Ready and waits.
Connect(r) ==
    /\ Phase(r) = "unsent"
    /\ streams < MaxStreams /\ streams' = streams + 1
    /\ socket' = [socket EXCEPT ![r] = "open"]
    /\ chat' = [chat EXCEPT ![r].phase = "waiting"]
    /\ UNCHANGED <<rows, channel, crashes>>

\* Mutant of Close: a state that is none.
CloseMisspelt(r) ==
    /\ socket' = [socket EXCEPT ![r] = "close"]
    /\ streams' = streams - 1

\* Mutant of Close: a stream that never carried a request keeps its permit.
CloseStarted(r) ==
    /\ socket' = [socket EXCEPT ![r] = "closed"]
    /\ streams' = IF Phase(r) = "waiting" THEN streams ELSE streams - 1

\* The handler returns: the socket closes, the permit is dropped.
Close(r) ==
    /\ socket' = [socket EXCEPT ![r] = "closed"]
    /\ streams' = streams - 1

\* receive_stream_request: the request arrives and the task is spawned; or the
\* client has gone, sends what is no request, or nothing for
\* INITIAL_CHAT_STREAM_REQUEST_TIMEOUT: the error it is sent and the end of the
\* connection are one to it.
Receive(r) ==
    /\ Phase(r) = "waiting" /\ socket[r] = "open"
    /\ chat' = [chat EXCEPT ![r].phase = "accepted"]
    /\ UNCHANGED <<rows, channel, socket, streams, crashes>>

NoRequest(r) ==
    /\ Phase(r) = "waiting" /\ Handled(r)
    /\ Close(r)
    /\ chat' = [chat EXCEPT ![r].phase = "ended"]
    /\ UNCHANGED <<rows, channel, crashes>>

\* post_chat from an HTTP client.
Post(r, t) ==
    /\ Phase(r) = "unsent"
    /\ chat' = [chat EXCEPT ![r] = [phase |-> "accepted", thread |-> t]]
    /\ UNCHANGED <<rows, channel, socket, streams, crashes>>

------------------------------------------------------------------------------
(* execute_chat_request, in the request's own task. *)

Emit(r, events) ==
    channel' = IF Handled(r) THEN [channel EXCEPT ![r] = @ \o events] ELSE channel
Become(r, phase) == chat' = [chat EXCEPT ![r].phase = phase]
TaskStep == UNCHANGED <<socket, streams, crashes>>

\* get_thread_for_account: the thread that the request names has a row.
LookUp(r) ==
    /\ chat[r].thread \in Threads /\ thread[chat[r].thread] = "open"
    /\ Become(r, "resolved") /\ UNCHANGED thread

\* create_thread_for_account, under an id that no thread has had.
NewThread(r) ==
    /\ chat[r].thread = NoThread
    /\ \E t \in Threads :
         /\ thread[t] = "new" /\ thread' = [thread EXCEPT ![t] = "open"]
         /\ chat' = [chat EXCEPT ![r] = [phase |-> "resolved", thread |-> t]]

ResolveThread(r) ==
    /\ Phase(r) = "accepted"
    /\ LookUp(r) \/ NewThread(r)
    /\ UNCHANGED <<talk, channel>> /\ TaskStep

\* add_message_for_account checks that the thread still exists.
AddMessage(r, role) ==
    /\ thread[chat[r].thread] = "open"
    /\ talk' = [talk EXCEPT ![chat[r].thread] = Append(@, [role |-> role, of |-> r])]
    /\ UNCHANGED thread

StoreQuestion(r) ==
    /\ Phase(r) = "resolved"
    /\ AddMessage(r, "user")
    /\ Become(r, "asked") /\ Emit(r, <<"threadReady">>)
    /\ TaskStep

\* run_chat_execution_plan: the run of the agent the router chose; a specialist's
\* output goes through Mail Assistant unless it is about missing prerequisites.
\* Its progress, which a full channel loses, is not modelled.
RunAgent(r) ==
    /\ Phase(r) = "asked" /\ Become(r, "answered")
    /\ UNCHANGED <<rows, channel>> /\ TaskStep

\* Mutant of StoreAnswer: the client is told before the answer is stored.
AnswerFirst(r) ==
    /\ Phase(r) = "answered"
    /\ Become(r, "ended") /\ Emit(r, <<"completed", "done">>)
    /\ UNCHANGED rows
    /\ TaskStep

\* The answer is stored in the thread, then the client is told.
StoreAnswer(r) ==
    /\ Phase(r) = "answered"
    /\ AddMessage(r, "agent")
    /\ Become(r, "stored") /\ UNCHANGED channel
    /\ TaskStep

TellClient(r) ==
    /\ Phase(r) = "stored"
    /\ Become(r, "ended") /\ Emit(r, <<"completed", "done">>)
    /\ UNCHANGED rows /\ TaskStep

Executing(r) == Phase(r) \in {"accepted", "resolved", "asked", "answered", "stored"}

\* Any step may fail, and after MAX_CHAT_EXECUTION_DURATION the future is dropped
\* where it stands: what is stored stays, also an answer whose commit was not yet
\* acknowledged.
Fail(r) ==
    /\ Executing(r)
    /\ Become(r, "ended") /\ Emit(r, <<"error">>)
    /\ UNCHANGED rows /\ TaskStep

\* A panic ends the spawned task without an event.  Its handler holds a sender of
\* its own and waits on, until a send to the client fails or the server restarts.
Panic(r) ==
    /\ Executing(r)
    /\ Become(r, "ended")
    /\ UNCHANGED <<rows, channel>> /\ TaskStep

DeleteThread(t) ==
    /\ thread[t] = "open"
    /\ thread' = [thread EXCEPT ![t] = "deleted"]
    /\ talk' = [talk EXCEPT ![t] = <<>>]
    /\ UNCHANGED <<chat, channel>> /\ TaskStep

------------------------------------------------------------------------------
(* The handler's loop, the network, and a restart. *)

\* The next event reaches the client; Done and Error end the stream.
Forward(r) ==
    /\ socket[r] = "open" /\ channel[r] # <<>>
    /\ channel' = [channel EXCEPT ![r] = Tail(@)]
    /\ IF Head(channel[r]) \in {"done", "error"} THEN Close(r) ELSE UNCHANGED <<socket, streams>>
    /\ UNCHANGED <<rows, chat, crashes>>

\* A send fails on a broken connection. The request's task goes on without its handler.
ForwardFails(r) ==
    /\ socket[r] = "broken" /\ channel[r] # <<>>
    /\ channel' = [channel EXCEPT ![r] = <<>>]
    /\ Close(r)
    /\ UNCHANGED <<rows, chat, crashes>>

Disconnect(r) ==
    /\ socket[r] = "open" /\ socket' = [socket EXCEPT ![r] = "broken"]
    /\ UNCHANGED <<rows, chat, channel, streams, crashes>>

Restart ==
    /\ crashes < CrashBudget /\ crashes' = crashes + 1
    /\ chat' = [r \in Requests |-> IF Phase(r) = "unsent" THEN chat[r]
                                   ELSE [chat[r] EXCEPT !.phase = "ended"]]
    /\ channel' = [r \in Requests |-> <<>>]
    /\ socket' = [r \in Requests |-> IF Handled(r) THEN "closed" ELSE socket[r]]
    /\ streams' = 0
    /\ UNCHANGED rows

TaskNext(r) ==
    \/ ResolveThread(r) \/ StoreQuestion(r) \/ RunAgent(r) \/ StoreAnswer(r) \/ TellClient(r)
    \/ Fail(r) \/ Panic(r)

------------------------------------------------------------------------------
(* Properties *)

\* Every permit belongs to a live handler and every live handler holds one, however
\* its stream ends, so the limit of concurrent streams neither leaks nor is passed.
PermitsAccounted ==
    /\ streams = Cardinality({r \in Requests : Handled(r)})
    /\ streams <= MaxStreams

\* A client that is told its request completed finds the answer in the thread, after
\* the question it answers and once only, whatever other requests and restarts came
\* between, unless the thread was deleted.
CompletedIsStored ==
    \A r \in Requests, t \in Threads :
        /\ Contains(channel[r], "completed") /\ chat[r].thread = t /\ thread[t] = "open"
           => Contains(talk[t], [role |-> "agent", of |-> r])
        /\ \A i \in DOMAIN talk[t] :
             talk[t][i] = [role |-> "agent", of |-> r]
             => /\ \E j \in 1 .. i - 1 : talk[t][j] = [role |-> "user", of |-> r]
                /\ \A j \in DOMAIN talk[t] : talk[t][j] = talk[t][i] => j = i
=============================================================================
