---------------------------- MODULE SchedulerTask ----------------------------
(***************************************************************************)
(* evaluate_campaign_schedules_task (apps/worker/tasks/scheduler_tasks.py): *)
(* every minute Celery Beat starts one, and nothing stops two from running  *)
(* at once.  An evaluator claims due enrollments FOR UPDATE SKIP LOCKED,    *)
(* then, for each of them, moves it to READY in a transaction of its own    *)
(* and hands it to a send task.  The first of those commits releases every  *)
(* row lock of the claim.                                                   *)
(***************************************************************************)
EXTENDS SendTask

CONSTANT BATCH_LIMIT   \* limit(50)

ASSUME BatchAssumption == BATCH_LIMIT \in Nat \ {0}

VARIABLES
  batch,    \* claimed enrollments an evaluator has not processed yet
  handing   \* the enrollment it has made READY and not handed over yet

schedulerVars == <<batch, handing>>

SchedulerTypeOK ==
  /\ batch \in [Evaluators -> SUBSET Enrollments]
  /\ handing \in [Evaluators -> Enrollments \cup {NoEnrollment}]

SchedulerInit ==
  /\ batch = [ev \in Evaluators |-> {}]
  /\ handing = [ev \in Evaluators |-> NoEnrollment]

-----------------------------------------------------------------------------

\* A faulty query that also picks up what has been released already.
DueOrReleased(e) ==
  /\ status[campaignOf[e]] = "RUNNING"
  /\ row[e].state \in {"QUEUED", "WAITING", "READY"}
  /\ row[e].nextAction \in {"due", "none"}

Due(e) ==
  /\ status[campaignOf[e]] = "RUNNING"
  /\ \/ row[e].state \in {"QUEUED", "WAITING"} /\ row[e].nextAction = "due"
     \/ row[e].state = "QUEUED" /\ row[e].nextAction = "none"

\* A faulty claim: without the enrollments that were never scheduled.
ClaimableScheduled ==
  {e \in Enrollments : Due(e) /\ row[e].nextAction = "due" /\ Writable(campaignOf[e])}

\* Due, and neither its row nor its campaign's row is locked.
Claimable == {e \in Enrollments : Due(e) /\ Writable(campaignOf[e])}

Evaluate(ev) ==
  /\ batch[ev] = {} /\ handing[ev] = NoEnrollment
  /\ \E claimed \in (SUBSET Claimable) \ {{}} :
       /\ \/ claimed = Claimable /\ Cardinality(claimed) <= BATCH_LIMIT
          \/ Cardinality(claimed) = BATCH_LIMIT
       /\ batch' = [batch EXCEPT ![ev] = claimed]
       /\ locked' = [locked EXCEPT ![ev] = claimed]
  /\ UNCHANGED <<status, row, suppressed, optOut, sendVars, handing>>

\* The claimed copy is QUEUED or WAITING, so the transition is always allowed;
\* its commit ends the transaction that held the whole claim.
Release(ev, e) ==
  /\ e \in batch[ev] /\ handing[ev] = NoEnrollment
  /\ \A other \in Evaluators \ {ev} : \A f \in locked[other] : campaignOf[f] # campaignOf[e]
  /\ row' = [row EXCEPT ![e].state = "READY"]
  /\ locked' = [locked EXCEPT ![ev] = {}]
  /\ batch' = [batch EXCEPT ![ev] = @ \ {e}]
  /\ handing' = [handing EXCEPT ![ev] = e]
  /\ UNCHANGED <<status, suppressed, optOut, sendVars>>

HandOver(ev) ==
  /\ handing[ev] # NoEnrollment
  /\ \E t \in SendTasks : Delay(t, handing[ev])
  /\ handing' = [handing EXCEPT ![ev] = NoEnrollment]
  /\ UNCHANGED <<storeVars, batch>>

\* The broker refuses the message: logged, and the loop goes on.
HandOverFails(ev) ==
  /\ handing[ev] # NoEnrollment /\ "broker" \in Faults
  /\ handing' = [handing EXCEPT ![ev] = NoEnrollment]
  /\ UNCHANGED <<storeVars, sendVars, batch>>

\* The worker dies: what it has not committed is rolled back.
EvaluatorCrash(ev) ==
  /\ "crash" \in Faults
  /\ batch[ev] # {} \/ handing[ev] # NoEnrollment
  /\ batch' = [batch EXCEPT ![ev] = {}]
  /\ handing' = [handing EXCEPT ![ev] = NoEnrollment]
  /\ locked' = [locked EXCEPT ![ev] = {}]
  /\ UNCHANGED <<status, row, suppressed, optOut, sendVars>>

SchedulerProgress(ev) ==
  Evaluate(ev) \/ (\E e \in Enrollments : Release(ev, e)) \/ HandOver(ev)

SchedulerFault(ev) == HandOverFails(ev) \/ EvaluatorCrash(ev)

SchedulerNext == \E ev \in Evaluators : SchedulerProgress(ev) \/ SchedulerFault(ev)

=============================================================================
