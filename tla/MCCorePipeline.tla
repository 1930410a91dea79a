---------------------------- MODULE MCCorePipeline ----------------------------
(* Instances of CorePipeline for TLC. *)
EXTENDS CorePipeline

CONSTANTS m1

OneMail == {m1}

\* Retried are one type that only the coordinator plans and one that both loops plan;
\* other work that fails is dead at once.
SomeRetried == [type \in WorkTypes |->
                  IF type \in {"sync_incremental", "locate"} THEN 2 ELSE 1]
OneAttempt == [type \in WorkTypes |-> 1]
NoMail == {}
NeverApply == {FALSE}
EitherWay == BOOLEAN
==============================================================================
