------------------------------- MODULE DraftGate -------------------------------
(***************************************************************************)
(* What stands between a generated campaign email and the provider: the     *)
(* verifier (packages/ai/verifier.py) on what the context builder retrieved *)
(* and the claims policy, then the gate of the send task.  A draft is the   *)
(* claims it lists, the phrases in its subject and body that a policy may    *)
(* name, and what the model says of it; a confidence is in thousandths.     *)
(***************************************************************************)
EXTENDS Integers, FiniteSets

CONSTANTS
  Phrases,    \* phrases of claims policies, in lower case
  Defaults,   \* those the context builder prohibits when no policy lists any
  Claims,     \* claims a draft may list: how many tokens, and how many the corpus has
  Confidences \* what a model may say of its draft

ASSUME DraftAssumption ==
  /\ Defaults \subseteq Phrases
  /\ Claims \subseteq [tokens : Nat, found : Nat]
  /\ Confidences \subseteq 0 .. 1000

Drafts ==
  [claims : SUBSET Claims, says : SUBSET Phrases, research : BOOLEAN,
   flagged : BOOLEAN, confidence : Confidences, send : BOOLEAN]

\* A business profile's claims_policy: whether it has the list prohibited_claims (a scanned
\* policy calls its list forbidden_claims and has none), and the list.
Policies == [listed : BOOLEAN, phrases : SUBSET Phrases]

\* A faulty ratio that takes a claim of which anything is found.
SomeFound(c) == c.tokens = 0 \/ c.found > 0
Grounded(c)  == 2 * c.found >= c.tokens

\* The profile is read twice, before the model is asked and after: what either reading
\* prohibits counts, but the defaults only stand in for the first.
ProhibitedNow(before, after) == IF after.listed THEN after.phrases ELSE {}
Prohibited(before, after) ==
  (IF before.listed THEN before.phrases ELSE Defaults)
  \cup (IF after.listed THEN after.phrases ELSE {})

is_grounded(d, before, after, proven) ==
  /\ \A c \in d.claims : Grounded(c)
  /\ d.says \cap Prohibited(before, after) = {}
  /\ d.research => proven

Penalised(d, grounded) ==
  IF grounded \/ d.confidence < 700 THEN d.confidence ELSE 700

\* round(confidence, 2), which may take a tie either way.
Rounded(confidence) == {h \in 0 .. 100 : 10 * h - confidence \in -5 .. 5}

\* Each finding of the verifier is a risk flag.
verify_draft(d, before, after, proven) ==
  LET grounded   == is_grounded(d, before, after, proven)
      confidence == Penalised(d, grounded)
  IN [confidence : Rounded(confidence),
      send : {d.send /\ grounded /\ ~d.flagged /\ confidence >= 850}]

\* The send task's own check; what it holds goes to HANDOFF.
Released(v) == v.send /\ v.confidence >= 85

=============================================================================
