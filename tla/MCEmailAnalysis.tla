---------------------------- MODULE MCEmailAnalysis ----------------------------
(* Instances of EmailAnalysis for TLC: a scam with a code, a code, and plain mail. *)
EXTENDS EmailAnalysis

PlainMail == [spam |-> FALSE, phishing |-> FALSE, marketing |-> FALSE, severe |-> FALSE,
              newsletter |-> FALSE, otp |-> FALSE, expiry |-> FALSE, scam |-> FALSE,
              guidance |-> FALSE, alert |-> FALSE, codeWords |-> FALSE,
              sourceAlert |-> FALSE, signature |-> FALSE, payload |-> FALSE]
CodeMail == [PlainMail EXCEPT !.otp = TRUE, !.expiry = TRUE]

\* Called spam and marketing, scam by its words, and everything that repairs either.
ScamMail == [CodeMail EXCEPT !.spam = TRUE, !.marketing = TRUE, !.scam = TRUE,
                             !.guidance = TRUE, !.alert = TRUE, !.sourceAlert = TRUE,
                             !.signature = TRUE]
BothAnswers == {PlainMail, CodeMail}
OneAnswer == {ScamMail}
TwoMails == {1, 2}
FirstMail == {1}
NoMails == {}
==============================================================================
