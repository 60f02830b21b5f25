--------------------------- MODULE MCSequenceEngine ---------------------------
(***************************************************************************)
(* Small instances of SequenceEngine for TLC.                               *)
(***************************************************************************)
EXTENDS SequenceEngine, TLC

CONSTANTS c1, c2, l1, l2, e1, e2, t1, t2, w1, w2, d1, d2, m1, m2

\* One enrollment; two leads in one campaign; one lead in two campaigns.
SoloCampaign == e1 :> c1
SoloLead     == e1 :> l1
PairCampaign == e1 :> c1 @@ e2 :> c1
PairLead     == e1 :> l1 @@ e2 :> l2
TwinCampaign == e1 :> c1 @@ e2 :> c2
TwinLead     == e1 :> l1 @@ e2 :> l1

\* Campaigns of one step, or of two.
OneStep   == [c \in Campaigns |-> 1]
TwoSteps  == [c \in Campaigns |-> 2]

\* No inbound email, one, or two from the same lead.
NoMessageOf   == [d \in Deliveries |-> m1]
OneMessage    == d1 :> m1
TwoMessages   == d1 :> m1 @@ d2 :> m2
FromFirstLead == [m \in Messages |-> l1]

\* Send task slots and workers are interchangeable.
Slots   == Permutations(SendTasks)
Workers == Permutations(SendTasks) \cup Permutations(Evaluators)

=============================================================================
