------------------------------- MODULE LeadScore -------------------------------
(***************************************************************************)
(* LeadScorer.evaluate_lead_score (packages/lead_intelligence/scorer.py).   *)
(* A lead is what the scorer's keyword lists and patterns make of it.       *)
(***************************************************************************)
EXTENDS Integers, FiniteSets

CONSTANT Counts   \* the employee counts a lead may have

ASSUME CountsAssumption == Counts \subseteq Nat

Industries == {"none", "target", "affine", "other"}
JobTitles  == {"none", "out_of_scope", "senior", "operational", "standard"}
Stages     == {"sql", "mql", "advanced", "lead", "other"}
Flags      == {"competitor", "blocked"}

\* Only a profile has industries a lead's can match.
Leads ==
  {l \in [industry : Industries, counted : BOOLEAN, employee_count : Counts, job_title : JobTitles,
          profile : BOOLEAN, named : BOOLEAN, domain : BOOLEAN, selling : BOOLEAN,
          stage : Stages, eager : BOOLEAN, free_mail : BOOLEAN, phone : BOOLEAN,
          flags : SUBSET Flags] :
     l.industry = "target" => l.profile}

AtMost(bound, n)  == IF n < bound THEN n ELSE bound
AtLeast(bound, n) == IF n > bound THEN n ELSE bound

IndustryPoints(l) ==
  CASE l.industry = "none"   -> 0
    [] l.industry = "target" -> 15
    [] l.industry = "affine" -> 10
    [] l.industry = "other"  -> 5

SizePoints(l) ==
  CASE ~l.counted                       -> 0
    [] l.counted /\ l.employee_count \in 50 .. 2500    -> 15
    [] l.counted /\ l.employee_count \in 2501 .. 10000 -> 12
    [] l.counted /\ l.employee_count \in 10 .. 49      -> 8
    [] l.counted /\ l.employee_count > 10000           -> 10
    [] l.counted /\ l.employee_count < 10              -> 3

TitlePoints(l) ==
  CASE l.job_title \in {"none", "out_of_scope"} -> 0
    [] l.job_title = "senior"                   -> 10
    [] l.job_title = "operational"              -> 6
    [] l.job_title = "standard"                 -> 3

icp_score(l) == AtMost(40, IndustryPoints(l) + SizePoints(l) + TitlePoints(l))

\* The profile's texts name the industry or the domain; a lead without a domain always
\* passes, for the empty string is in every text.
Aligned(l) == l.profile /\ l.industry # "none" /\ (l.named \/ ~l.domain)

relevance_score(l) ==
  AtMost(25, 10 + (IF Aligned(l) THEN 10 ELSE 0) + (IF l.profile /\ l.selling THEN 5 ELSE 0))

StagePoints(l) ==
  CASE l.stage = "sql"      -> 20
    [] l.stage = "mql"      -> 15
    [] l.stage = "advanced" -> 12
    [] l.stage = "lead"     -> 8
    [] l.stage = "other"    -> 5

\* A faulty bonus that is listed in full whatever is left of the twenty points.
NotesInFull(l) == IF l.eager THEN 5 ELSE 0
NotesPoints(l) == IF l.eager THEN AtMost(20 - StagePoints(l), 5) ELSE 0

intent_score(l) == AtMost(20, StagePoints(l) + NotesPoints(l))

quality_score(l) == IF l.free_mail THEN 0 - 10 ELSE 7 + (IF l.phone THEN 3 ELSE 0)

\* Deductions of twenty points each.
Deductions(l) == Cardinality(l.flags) + (IF l.job_title = "out_of_scope" THEN 1 ELSE 0)

\* A faulty floor at half a deduction.
negative_half(l)  == AtLeast(0 - 10, 0 - 20 * Deductions(l))
negative_score(l) == AtLeast(0 - 20, 0 - 20 * Deductions(l))

total_score(l) ==
  AtLeast(0, AtMost(100, icp_score(l) + relevance_score(l) + intent_score(l)
                         + quality_score(l) + negative_score(l)))

score_band(total) == IF total >= 80 THEN "HOT" ELSE IF total >= 50 THEN "WARM" ELSE "COLD"

\* The points of the reasons that are listed with the score.
reasons(l) ==
  IndustryPoints(l) + SizePoints(l) + TitlePoints(l) + relevance_score(l)
  + StagePoints(l) + NotesPoints(l) + quality_score(l) - 20 * Deductions(l)

evaluate_lead_score(l) ==
  [total |-> total_score(l), band |-> score_band(total_score(l)), listed |-> reasons(l)]

=============================================================================
