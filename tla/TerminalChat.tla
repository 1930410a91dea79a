---------------------------- MODULE TerminalChat ----------------------------
(***************************************************************************)
(* The chat tab of the terminal UI beside the server it talks to. The app  *)
(* is one loop over keys and network results; every command it issues is a *)
(* task of its own, so results arrive in any order, and a stream's events  *)
(* in order among whatever else arrives.                                   *)
(*                                                                         *)
(* Two equal calls outstanding at once are one, and a call is served when  *)
(* its result is delivered. The position in the list is any thread of it.  *)
(* Transcripts' contents, the composer's text and the wording of the       *)
(* status line are left out.                                               *)
(***************************************************************************)
EXTENDS ChatServer

CONSTANT MaxCalls   \* bound on commands under way when the user gives one, for TLC

ASSUME CallAssumption == MaxCalls \in Nat \ {0}

VARIABLES listed,     \* App.threads
          ui,         \* the flags of App that steer the chat tab
          waiting,    \* streams whose client task still runs
          calls,      \* commands outstanding
          replies,    \* results on their way to the app
          stale       \* history: the list that was to name the active thread has not come

clientVars == <<listed, ui, waiting, calls, replies, stale>>
vars == <<serverVars, clientVars>>

Ui == [active : Threads \cup {NoThread}, draft : BOOLEAN, pending : BOOLEAN, stream : Threads \cup {NoThread}]
Call == [kind : {"threads", "delete"}, thread : Threads \cup {NoThread}]
LoadThreads == [kind |-> "threads", thread |-> NoThread]
Delete(t) == [kind |-> "delete", thread |-> t]
Reply == [kind : {"threads"}, found : SUBSET Threads] \cup [kind : {"deleted"}, thread : Threads]
ThreadList(found) == [kind |-> "threads", found |-> found]
Deleted(t) == [kind |-> "deleted", thread |-> t]

TypeOK ==
    /\ ServerTypeOK
    /\ listed \subseteq Threads /\ ui \in Ui /\ waiting \subseteq Requests
    /\ calls \subseteq Call /\ replies \subseteq Reply /\ stale \in BOOLEAN

\* App::new
Init ==
    /\ ServerInit
    /\ listed = {} /\ waiting = {} /\ stale = FALSE
    /\ ui = [active |-> NoThread, draft |-> FALSE, pending |-> FALSE,
             stream |-> NoThread]
    /\ calls = {LoadThreads} /\ replies = {}

MayCall == Cardinality(calls) + Cardinality(replies) < MaxCalls

------------------------------------------------------------------------------
(* Keys *)

\* Enter on a thread, also while an answer is awaited.
OpenThread(t) ==
    /\ t \in listed
    /\ ui' = [ui EXCEPT !.draft = FALSE, !.active = t]
    /\ UNCHANGED <<serverVars, listed, waiting, calls, replies, stale>>

Drafted == [ui EXCEPT !.draft = TRUE, !.active = NoThread, !.stream = NoThread]

\* n waits for the answer; c on an email does not.
NewDraft(aboutEmail) ==
    /\ ui.pending => aboutEmail
    /\ ui' = Drafted
    /\ UNCHANGED <<serverVars, listed, waiting, calls, replies, stale>>

\* d, then its confirmation.
ConfirmDelete(t) ==
    /\ ~ui.pending /\ t \in listed
    /\ MayCall
    /\ calls' = calls \cup {Delete(t)}
    /\ UNCHANGED <<serverVars, listed, ui, waiting, replies, stale>>

\* r
Refresh ==
    /\ MayCall
    /\ calls' = calls \cup {LoadThreads}
    /\ UNCHANGED <<serverVars, listed, ui, waiting, replies, stale>>

\* Enter in the composer: the message goes to the active thread or starts a new one.
SendChat(r) ==
    /\ ~ui.pending /\ r \notin waiting /\ Phase(r) = "unsent"
    /\ chat' = [chat EXCEPT ![r].thread = ui.active]
    /\ ui' = [ui EXCEPT !.pending = TRUE, !.stream = ui.active]
    /\ waiting' = waiting \cup {r}
    /\ UNCHANGED <<rows, channel, socket, streams, crashes, listed, calls, replies, stale>>

------------------------------------------------------------------------------
(* on_chat_event *)

OnThreadReady(r) ==
    /\ ui' = [ui EXCEPT !.stream = chat[r].thread]
    /\ UNCHANGED calls

OnCompleted(r) ==
    LET t == chat[r].thread IN
    /\ ui' = [ui EXCEPT !.pending = FALSE, !.draft = FALSE, !.active = t, !.stream = t]
    /\ calls' = calls \cup {LoadThreads}

\* Mutant of OnError: the flag of the send is forgotten.
OnErrorPending ==
    /\ ui' = ui
    /\ calls' = IF ui.stream = NoThread THEN calls
                ELSE calls \cup {LoadThreads}

OnError ==
    /\ ui' = [ui EXCEPT !.pending = FALSE]
    /\ calls' = IF ui.stream = NoThread THEN calls
                ELSE calls \cup {LoadThreads}

OnDone ==
    /\ ui' = [ui EXCEPT !.pending = FALSE]
    /\ UNCHANGED calls

OnEvent(r, e) ==
    \/ e = "threadReady" /\ OnThreadReady(r)
    \/ e = "completed" /\ OnCompleted(r)
    \/ e = "error" /\ OnError
    \/ e = "done" /\ OnDone

------------------------------------------------------------------------------
(* stream_chat, one task for each request sent *)

Opens(r) == r \in waiting /\ Connect(r) /\ UNCHANGED clientVars

\* The server refuses the stream or cannot be reached.
NotConnected(r) ==
    /\ r \in waiting /\ Phase(r) = "unsent"
    /\ \/ Refuse(r)
       \/ Become(r, "ended") /\ UNCHANGED <<rows, channel, socket, streams, crashes>>
    /\ OnError
    /\ waiting' = waiting \ {r}
    /\ UNCHANGED <<listed, replies, stale>>

Delivered(r) ==
    /\ r \in waiting /\ Forward(r)
    /\ OnEvent(r, Head(channel[r]))
    /\ waiting' = IF Head(channel[r]) \in {"done", "error"} THEN waiting \ {r} ELSE waiting
    /\ UNCHANGED <<listed, replies, stale>>

\* The connection ended before the stream did.
StreamBreaks(r) ==
    /\ r \in waiting /\ socket[r] \in {"broken", "closed"}
    /\ OnError
    /\ waiting' = waiting \ {r}
    /\ UNCHANGED <<serverVars, listed, replies, stale>>

------------------------------------------------------------------------------
(* The other commands *)

\* The list of threads is read, or the call fails.
ServeThreads ==
    /\ LoadThreads \in calls /\ calls' = calls \ {LoadThreads}
    /\ \/ replies' = replies \cup {ThreadList({t \in Threads : thread[t] = "open"})}
          /\ UNCHANGED stale
       \/ stale' = (stale \/ ui.active \notin listed \cup {NoThread}) /\ UNCHANGED replies
    /\ UNCHANGED <<serverVars, listed, ui, waiting>>

\* The server's DELETE finds the thread or not, both succeed.
ServeDelete(t) ==
    /\ Delete(t) \in calls /\ calls' = calls \ {Delete(t)}
    /\ DeleteThread(t) \/ (thread[t] # "open" /\ UNCHANGED serverVars)
    /\ replies' = replies \cup {Deleted(t)}
    /\ UNCHANGED <<listed, ui, waiting, stale>>

\* The call fails, or its answer is lost after the thread has been deleted.
DeleteFails(t) ==
    /\ \/ Delete(t) \in calls /\ calls' = calls \ {Delete(t)} /\ UNCHANGED replies
       \/ Deleted(t) \in replies /\ replies' = replies \ {Deleted(t)} /\ UNCHANGED calls
    /\ UNCHANGED <<serverVars, listed, ui, waiting, stale>>

\* Mutant of OnThreadsLoaded: the list does not look for the active thread.
OnThreadsLoadedKeeps(found) ==
    /\ listed' = found /\ stale' = FALSE
    /\ UNCHANGED ui

\* on_threads_loaded: an active thread that is not in the list is left for the first
\* of the list, which is any of them; a draft is not touched.
OnThreadsLoaded(found) ==
    LET lost == ui.active \notin found IN
    /\ listed' = found /\ stale' = FALSE
    /\ \/ lost /\ ~ui.draft /\ \E first \in found : ui' = [ui EXCEPT !.active = first]
       \/ lost /\ ~ui.draft /\ found = {} /\ ui' = [ui EXCEPT !.active = NoThread]
       \/ (~lost \/ ui.draft) /\ UNCHANGED ui

\* The list as it was when it was read, however long ago.
ThreadsLoaded(found) ==
    /\ ThreadList(found) \in replies /\ replies' = replies \ {ThreadList(found)}
    /\ OnThreadsLoaded(found)
    /\ UNCHANGED <<serverVars, waiting, calls>>

\* on_thread_deleted: the list is asked for again; an active thread is left for its
\* neighbour or a draft.
ThreadDeleted(t) ==
    LET left == listed \ {t} IN
    /\ Deleted(t) \in replies /\ replies' = replies \ {Deleted(t)}
    /\ listed' = left
    /\ calls' = calls \cup {LoadThreads}
    /\ \/ ui.active # t /\ UNCHANGED ui
       \/ ui.active = t /\ \E next \in left : ui' = [ui EXCEPT !.active = next]
       \/ ui.active = t /\ left = {} /\ ui' = [ui EXCEPT !.active = NoThread, !.draft = TRUE]
    /\ UNCHANGED <<serverVars, waiting, stale>>

------------------------------------------------------------------------------
Keys == \/ \E t \in Threads : OpenThread(t) \/ ConfirmDelete(t)
        \/ \E about \in BOOLEAN : NewDraft(about)
        \/ Refresh
        \/ \E r \in Requests : SendChat(r)

Calls == \/ ServeThreads
         \/ \E t \in Threads : ServeDelete(t) \/ DeleteFails(t)

Results == \/ \E found \in SUBSET Threads : ThreadsLoaded(found)
           \/ \E t \in Threads : ThreadDeleted(t)

Streams(r) == Opens(r) \/ NotConnected(r) \/ Delivered(r) \/ StreamBreaks(r)

Tasks(r) == Receive(r) \/ NoRequest(r) \/ TaskNext(r) \/ ForwardFails(r)

Environment == \/ Restart
               \/ \E r \in Requests : Disconnect(r)
               \/ \E r \in Requests \ waiting, t \in Threads : Post(r, t)
               \/ \E t \in Threads : DeleteThread(t)    \* by a wrapper

Next ==
    \/ Keys \/ Calls \/ Results
    \/ \E r \in Requests : Streams(r)
    \/ \E r \in Requests : Tasks(r) /\ UNCHANGED clientVars
    \/ Environment /\ UNCHANGED clientVars

Spec == Init /\ [][Next]_vars

------------------------------------------------------------------------------
(* Properties *)

\* Whatever the user does while an answer is awaited, the composer is locked only while
\* the client task of some stream runs: all that ends one unlocks it.
PendingHasItsStream == ui.pending => waiting # {}

\* The conversation the composer is aimed at is one of those the list shows, which
\* gives its agent and its email: however late an answer, a list or a deletion
\* arrives, and whatever was opened, drafted or deleted meanwhile, a list that will
\* put it right is on its way, or the last one could not be loaded.
ActiveIsListed ==
    \/ ui.active \in listed \cup {NoThread}
    \/ LoadThreads \in calls \/ \E found \in SUBSET Threads : ThreadList(found) \in replies
    \/ stale
=============================================================================
