--------------------------- MODULE MCTerminalChat ---------------------------
(* Instances of TerminalChat for TLC. *)
EXTENDS TerminalChat, TLC

CONSTANTS r1, r2, t1, t2

TwoRequests == {r1, r2}
OneThread == {t1}
TwoThreads == {t1, t2}
RequestSymmetry == Permutations(Requests)
==============================================================================
