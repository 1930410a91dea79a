---------------------------- MODULE MCAgentGate ----------------------------
(* Instances of AgentGate for TLC. *)
EXTENDS AgentGate

CONSTANTS m1

OneMail == {m1}
TwoAttempts == [type \in WorkTypes |-> 2]
NeverApply == {FALSE}
=============================================================================
