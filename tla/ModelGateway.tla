----------------------------- MODULE ModelGateway -----------------------------
(***************************************************************************)
(* What the language-model calls of packages/ai may answer, and the rules   *)
(* the code applies to an answer.  ModelGateway.generate_structured asks    *)
(* Anthropic, then OpenAI, and when neither answers uses a canned reply     *)
(* picked by keyword.  A live answer is any value of the schema; a          *)
(* confidence is kept as whether it reaches 0.85, and a text as the set of  *)
(* marks (phrases some pattern or keyword of the code looks for) in it.     *)
(***************************************************************************)
EXTENDS Naturals, Sequences

CONSTANTS
  Keys,         \* the providers with an API key, of {"anthropic", "openai"}
  LiveIntents   \* what a live model may call a message: bound of the classifier's answers

ASSUME GatewayAssumption == Keys \subseteq {"anthropic", "openai"}

-----------------------------------------------------------------------------
(* packages/ai/taxonomy.py *)

IntentType ==
  {"POSITIVE_INTEREST", "PRICING", "PRODUCT_QUESTION", "OBJECTION", "REQUEST_INFO",
   "NOT_INTERESTED", "UNSUBSCRIBE", "WRONG_PERSON", "REFERRAL", "TIMING",
   "MEETING_REQUEST", "HUMAN_REQUEST", "OUT_OF_SCOPE", "AUTO_REPLY"}

RequiresHuman == {"OBJECTION", "HUMAN_REQUEST", "OUT_OF_SCOPE"}

CanAutoReply ==
  IntentType \ (RequiresHuman \cup {"NOT_INTERESTED", "UNSUBSCRIBE", "AUTO_REPLY"})

-----------------------------------------------------------------------------
(* packages/ai/gateway.py *)

\* Neither provider is bound to answer: the canned answer is always possible.
generate_structured(live, canned) ==
  (IF Keys = {} THEN {} ELSE live) \cup {canned}

FirstOf(table, marks, otherwise) ==
  LET hits == {i \in DOMAIN table : table[i].on \cap marks # {}}
  IN IF hits = {} THEN otherwise
     ELSE table[CHOOSE i \in hits : \A j \in hits : i <= j]

Classed(on, intent) ==
  [on |-> {on}, intent |-> intent, sure |-> TRUE, review |-> intent \in RequiresHuman]

CannedIntents ==
  <<Classed("opt_out", "UNSUBSCRIBE"), Classed("price", "PRICING"),
    Classed("demo", "MEETING_REQUEST"), Classed("decline", "NOT_INTERESTED"),
    Classed("keen", "POSITIVE_INTEREST"), Classed("budget", "OBJECTION"),
    Classed("collateral", "REQUEST_INFO"), Classed("wrong_person", "WRONG_PERSON"),
    Classed("colleague", "REFERRAL"), Classed("timing", "TIMING"),
    Classed("human", "HUMAN_REQUEST"), Classed("threat", "OUT_OF_SCOPE"),
    Classed("away", "AUTO_REPLY")>>

CannedIntent(marks) == FirstOf(CannedIntents, marks, Classed("none", "PRODUCT_QUESTION"))

\* "Our pricing begins at ... Would Thursday at 2:00 PM work for a quick walkthrough?"
CannedReply == [sure |-> TRUE, review |-> FALSE, marks |-> {"price", "thursday"}]

LiveReplies == [sure : BOOLEAN, review : BOOLEAN, marks : {{}}]

Judged(on, status, pain, next_action) ==
  [on |-> on, status |-> status, pain |-> pain, next_action |-> next_action]

CannedVerdicts ==
  <<Judged({"urgent", "thursday"}, "QUALIFIED", TRUE, "BOOK_MEETING"),
    Judged({"later"}, "DEVELOPING", TRUE, "FOLLOW_UP"),
    Judged({"intern", "decline"}, "UNQUALIFIED", FALSE, "STOP"),
    Judged({"strategy"}, "QUALIFIED", FALSE, "FOLLOW_UP"),
    Judged({"thanks"}, "DEVELOPING", FALSE, "FOLLOW_UP")>>

CannedVerdict(marks) ==
  FirstOf(CannedVerdicts, marks, Judged({}, "DEVELOPING", TRUE, "FOLLOW_UP"))

-----------------------------------------------------------------------------
(* packages/compliance, packages/ai/intent_classifier.py *)

is_opt_out(marks) == "opt_out" \in marks

\* A mail's own text is what strip_quote_history keeps: the lines above a quote.
Kept(mail) == mail.above
FullText(mail) == mail.subject \cup Kept(mail)

Named(intent) == IF intent \in IntentType THEN intent ELSE "PRODUCT_QUESTION"

\* A review the taxonomy or the confidence calls for is added to the model's own.
Enforced(a) ==
  LET i == Named(a.intent)
  IN [intent |-> i, sure |-> a.sure, review |-> a.review \/ i \in RequiresHuman \/ ~a.sure]

LiveClasses == [intent : LiveIntents, sure : BOOLEAN, review : BOOLEAN]

Decided(intent) == {[intent |-> intent, sure |-> TRUE, review |-> FALSE]}

\* Opt-outs and auto-replies are told by pattern, in subject and text, before any model.
classify_text(text) ==
  IF is_opt_out(text) THEN Decided("UNSUBSCRIBE")
  ELSE IF "away" \in text THEN Decided("AUTO_REPLY")
  ELSE {Enforced(a) : a \in generate_structured(LiveClasses, CannedIntent(text))}

\* A faulty classifier that forgets the subject line.
classify_body(mail) == classify_text(Kept(mail))
classify_reply(mail) == classify_text(FullText(mail))

-----------------------------------------------------------------------------
(* packages/ai/agents/qualification_agent.py *)

Statuses == {"UNQUALIFIED", "DEVELOPING", "QUALIFIED"}

LiveVerdicts ==
  [status : Statuses, pain : BOOLEAN, next_action : {"BOOK_MEETING", "FOLLOW_UP"}]

Pleasantry(text) == text = {"thanks"}
Rejects(text) == "decline" \in text

\* The safeguards: a rejection or an intern is never qualified, nor is a pleasantry or a
\* verdict with no pain point, unless a meeting is to be booked.
Guarded(v, title, latest) ==
  IF Rejects(latest) \/ "intern" \in title \cup latest THEN "UNQUALIFIED"
  ELSE IF /\ v.status = "QUALIFIED"
          /\ \/ Pleasantry(latest)
             \/ ~v.pain /\ v.next_action # "BOOK_MEETING"
  THEN "DEVELOPING"
  ELSE v.status

\* The statuses an evaluation of a lead, on a history and its latest text, may give.
evaluate_lead_qualification(title, history, latest) ==
  {Guarded(v, title, latest) :
     v \in generate_structured(LiveVerdicts, CannedVerdict(title \cup history))}

=============================================================================
