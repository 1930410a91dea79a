-------------------------- MODULE ResultNormalization --------------------------
(***************************************************************************)
(* What apply_analysis_result_for_account makes of a model's verdict before *)
(* it is stored: the repairs of the spam, phishing, marketing, OTP and type *)
(* fields, from the words of the verdict and of the message itself; and of  *)
(* the review of its category and type before that.  The keyword lists are  *)
(* abstracted to the tests they decide.                                     *)
(***************************************************************************)

\* The verdict as it came (the analyzer's contract requires each field), the
\* tests on its words, and the tests on the words of the message.
Verdict == [spam : BOOLEAN, phishing : BOOLEAN, marketing : BOOLEAN, severe : BOOLEAN,
            newsletter : BOOLEAN, otp : BOOLEAN, expiry : BOOLEAN,
            scam : BOOLEAN, guidance : BOOLEAN, alert : BOOLEAN, codeWords : BOOLEAN,
            sourceAlert : BOOLEAN, signature : BOOLEAN, payload : BOOLEAN]

\* A commercial payload excludes the signature-only reading.
Consistent(v) == ~(v.signature /\ v.payload)

\* A review of category and type by a second model, for a broad or unknown one: of
\* what is modelled it may change the newsletter type, and no other answer.
Aligned(v) == {[v EXCEPT !.newsletter = newsletter] : newsletter \in BOOLEAN}

\* A message called spam whose taxonomy says scam or fraud is phishing.
Phishing(v) == v.phishing \/ (v.spam /\ v.scam)

\* The mistake of asking the model's own phishing answer, before its repair.
ThreatBlocksEarly(v) == v.phishing \/ v.severe

\* Phishing or a severe threat stops every repair that would soften the verdict.
ThreatBlocks(v) == Phishing(v) \/ v.severe

ConfiguredAlert(v) == v.alert \/ (v.spam /\ ~ThreatBlocks(v) /\ v.sourceAlert)
SignatureOnly(v) == v.marketing /\ ~ThreatBlocks(v) /\ v.signature

Spam(v) == v.spam /\ (ThreatBlocks(v) \/ ~(v.guidance \/ ConfiguredAlert(v) \/ SignatureOnly(v)))

\* The payload test reads the message, which is loaded only for spam or a
\* marketing answer; the contract always gives one.
Marketing(v) == IF v.marketing THEN ~SignatureOnly(v)
                ELSE ~ThreatBlocks(v) /\ v.payload

Code(v) == v.codeWords \/ v.otp

Newsletter(v) == v.newsletter /\ ~ConfiguredAlert(v)

Normalized(v) ==
    [spam |-> Spam(v), phishing |-> Phishing(v), marketing |-> Marketing(v),
     newsletter |-> Newsletter(v),
     otp |-> Code(v), expiry |-> v.expiry /\ Code(v)]

==============================================================================
