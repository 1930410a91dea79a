---------------------------- MODULE MCMailboxSync ----------------------------
(* Instances of MailboxSync for TLC. *)
EXTENDS MailboxSync

CONSTANTS m1, m2, m3

TwoMails == {m1, m2}
ThreeMails == {m1, m2, m3}
OneBlank == {m1}
None == {}
==============================================================================
