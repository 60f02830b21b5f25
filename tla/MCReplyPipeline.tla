---------------------------- MODULE MCReplyPipeline ----------------------------
(* A small instance of ReplyPipeline for TLC. *)
EXTENDS ReplyPipeline

Text(subject, above) == [subject |-> subject, above |-> above, below |-> {}]

\* A question, a pleasantry, a refusal, and an opt-out in each place.
MailsDef ==
  {Text({}, {"price"}), Text({}, {"thanks"}), Text({}, {"decline"}),
   Text({}, {"opt_out"}), Text({"opt_out"}, {"price"})}

LiveIntentsDef == {"PRICING", "UNSUBSCRIBE"}

TitlesDef == {{}, {"intern"}}

\* The canned outbound email: "Open to a brief demo on Thursday?"
FirstEmailsDef == {{"demo", "thursday"}}

\* A meeting, a disqualification, a meeting with is_qualified = FALSE, and a flag unset while
\* the status is named.
OutcomesDef ==
  {[NoBody EXCEPT !.meeting_booked = TRUE], [NoBody EXCEPT !.disqualified = TRUE],
   [NoBody EXCEPT !.meeting_booked = TRUE, !.is_qualified = "no"],
   [NoBody EXCEPT !.is_qualified = "no", !.qualification_status = "DEVELOPING"]}

Symmetry == Permutations(Deliveries)

=============================================================================
