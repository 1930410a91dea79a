---------------------------- MODULE ExclusiveWork ----------------------------
(***************************************************************************)
(* What the core work queue promises, without rows, leases or phases: an   *)
(* item is executed by one worker at a time, all the items in hand belong  *)
(* to one worker, only the worker that started an item ends it, an item    *)
(* whose worker went away is made ready again before anyone else starts    *)
(* it, and an item is given up only after MaxTries starts.                 *)
(* CoreRuntime implements this module while the lease is sound, and so do  *)
(* the batches of SubagentTasks.                                           *)
(***************************************************************************)
EXTENDS Naturals

CONSTANTS Items, Workers, NoWorker, MaxTries

VARIABLES state, holder, tries

abstractVars == <<state, holder, tries>>

ItemStates == {"idle", "ready", "running", "orphaned", "finished", "abandoned"}

AbstractTypeOK ==
    /\ state \in [Items -> ItemStates]
    /\ holder \in [Items -> Workers \cup {NoWorker}]
    /\ tries \in [Items -> Nat]

AbstractInit ==
    /\ state = [i \in Items |-> "idle"]
    /\ holder = [i \in Items |-> NoWorker]
    /\ tries = [i \in Items |-> 0]

\* A request for an item that is not being executed.
Submit(i) ==
    /\ state[i] \notin {"running", "orphaned"}
    /\ state' = [state EXCEPT ![i] = "ready"]
    /\ tries' = [tries EXCEPT ![i] = 0]
    /\ UNCHANGED holder

\* One worker starts a set of ready items; no other worker holds anything.
Start(w, S) ==
    /\ \A i \in S : state[i] = "ready"
    /\ \A i \in Items : holder[i] \in {w, NoWorker}
    /\ state' = [i \in Items |-> IF i \in S THEN "running" ELSE state[i]]
    /\ holder' = [i \in Items |-> IF i \in S THEN w ELSE holder[i]]
    /\ tries' = [i \in Items |-> IF i \in S THEN tries[i] + 1 ELSE tries[i]]

\* The holder ends an item, one way or the other.
End(w, i, outcome) ==
    /\ state[i] = "running"
    /\ holder[i] = w
    /\ outcome = "abandoned" => tries[i] >= MaxTries
    /\ state' = [state EXCEPT ![i] = outcome]
    /\ holder' = [holder EXCEPT ![i] = NoWorker]
    /\ UNCHANGED tries

\* A worker loses items it held.
Interrupt(w, S) ==
    /\ \A i \in S : holder[i] = w
    /\ state' = [i \in Items |-> IF i \in S THEN "orphaned" ELSE state[i]]
    /\ holder' = [i \in Items |-> IF i \in S THEN NoWorker ELSE holder[i]]
    /\ UNCHANGED tries

\* Orphans, and only orphans, become ready again.
Reclaim(S) ==
    /\ \A i \in S : state[i] = "orphaned"
    /\ state' = [i \in Items |-> IF i \in S THEN "ready" ELSE state[i]]
    /\ UNCHANGED <<holder, tries>>

AbstractNext ==
    \/ \E i \in Items : Submit(i)
    \/ \E w \in Workers, S \in SUBSET Items : Start(w, S) \/ Interrupt(w, S)
    \/ \E w \in Workers, i \in Items, outcome \in {"ready", "finished", "abandoned"} :
         End(w, i, outcome)
    \/ \E S \in SUBSET Items : Reclaim(S)

AbstractSpec == AbstractInit /\ [][AbstractNext]_abstractVars
==============================================================================
