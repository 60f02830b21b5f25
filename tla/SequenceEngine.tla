---------------------------- MODULE SequenceEngine ----------------------------
(***************************************************************************)
(* The sequence engine: overlapping schedule evaluations, send tasks,       *)
(* inbound-email tasks and API requests over the same rows, and what must   *)
(* hold of an enrollment whatever their interleaving.                       *)
(***************************************************************************)
EXTENDS SchedulerTask, InboundTask, ApiRequests

vars == <<storeVars, sendVars, schedulerVars, inboundVars>>

TypeOK ==
  StoreTypeOK /\ DispatchTypeOK /\ SendTypeOK /\ SchedulerTypeOK /\ InboundTypeOK

Init == StoreInit /\ DispatchInit /\ SendInit /\ SchedulerInit /\ InboundInit

Next ==
  \/ SendNext      /\ UNCHANGED <<schedulerVars, inboundVars>>
  \/ SchedulerNext /\ UNCHANGED inboundVars
  \/ InboundNext   /\ UNCHANGED <<task, seen, sent, unmarked, schedulerVars>>
  \/ ApiNext       /\ UNCHANGED <<sendVars, schedulerVars, inboundVars>>

Spec == Init /\ [][Next]_vars

\* A worker that does not die takes its next step, and Beat starts another
\* evaluation every minute.  Nothing is assumed of the web requests.
Fairness ==
  /\ \A t \in SendTasks : WF_vars(SendProgress(t) /\ UNCHANGED <<schedulerVars, inboundVars>>)
  /\ \A ev \in Evaluators : WF_vars(SchedulerProgress(ev) /\ UNCHANGED inboundVars)
  /\ \A d \in Deliveries : WF_vars(InboundProgress(d) /\ UNCHANGED <<task, seen, sent, unmarked, schedulerVars>>)

FairSpec == Spec /\ Fairness

-----------------------------------------------------------------------------
(* Safety.                                                                  *)

Live(t) == task[t].pc # "idle"

\* An enrollment has at most one send task queued, running or about to be queued:
\* what FOR UPDATE SKIP LOCKED is there for (scheduler_tasks.py:24).
AtMostOneLiveTask ==
  \A e \in Enrollments :
    /\ \A t1, t2 \in SendTasks :
         Live(t1) /\ Live(t2) /\ task[t1].enr = e /\ task[t2].enr = e => t1 = t2
    /\ \A ev \in Evaluators : handing[ev] = e =>
         /\ \A t \in SendTasks : Live(t) => task[t].enr # e
         /\ \A other \in Evaluators : handing[other] = e => other = ev

\* No email of a later step goes out, and no row advances, before every earlier
\* step's email was accepted by the provider: a retry, a crash or a row overwritten
\* in send_campaign_email_task may repeat a step, never skip one.  It takes an
\* enrollment that is dispatched once at a time: of two tasks at work on the same
\* step, one re-reads the number the other has incremented and increments it again.
NoStepSkipped ==
  \A e \in Enrollments : \A k \in Steps :
    (row[e].step > k \/ \E j \in Steps : j > k /\ sent[e][j] > 0) => sent[e][k] > 0

\* A step is emailed twice only behind an attempt that ended by an exception after the
\* provider had taken its email and before the enrollment was SENT (send_email_tasks.py:189):
\* no other retry, crash, stale copy or request repeats a step that an attempt has marked,
\* or works on.  It takes an enrollment that is dispatched once at a time.
TwiceOnlyUnmarked ==
  \A e \in Enrollments : \A k \in Steps : sent[e][k] > 1 => <<e, k>> \in unmarked

\* After a lead is suppressed, at most the one email that had passed dispatch's
\* re-check (under the lead's send lock) can still reach the lead.
AtMostOneLateEmail == \A l \in Leads : late[l] <= 1

\* A recorded opt-out message has its suppression and flags committed with it, so
\* the duplicate check never swallows an opt-out that took no effect.
OptOutRecordedWhole ==
  \A m \in OptOutMessages : recorded[m] > 0 => senderOf[m] \in suppressed \cap optOut

\* An enrollment's step number never decreases.
StepNeverGoesBack == [][\A e \in Enrollments : row'[e].step >= row[e].step]_row

\* Somebody works on a copy of the enrollment from which the table allows new_state:
\* a copy of an ended enrollment allows nothing, so it was loaded before the end.
CopyAllows(e, new_state) ==
  \/ \E t \in SendTasks : task[t].enr = e /\ new_state \in VALID_TRANSITIONS(seen[t].state)
  \/ \E ev \in Evaluators : e \in batch[ev] /\ new_state = "READY"
  \/ \E d \in Deliveries : new_state \in VALID_TRANSITIONS(inSeen[d][e].state)

\* An ended enrollment changes state only by the hand of a process that loaded it before
\* its end, and only as the table allows from that copy: no request, and no task, delivery
\* or evaluation that loads it afterwards, brings it back.
EndedStaysEnded ==
  [][\A e \in Enrollments :
       row[e].state \in TERMINAL_STATES /\ row'[e].state # row[e].state
         => CopyAllows(e, row'[e].state)]_vars

-----------------------------------------------------------------------------
(* Liveness.                                                                *)

\* Every dispatched task ends: sent, skipped, halted or out of retries.
EveryTaskEnds == \A t \in SendTasks : Live(t) ~> ~Live(t)

\* An enrollment does not stay due: an evaluation claims it, or it stops being due.
DueIsClaimed == \A e \in Enrollments : Due(e) ~> ~Due(e)

\* Every opt-out message leads to its sender's suppression (inbound_email.py:39).
OptOutTakesEffect ==
  \A d \in Deliveries :
    (InAt(d, "queued") /\ IsOptOut(d)) ~> is_email_suppressed(Sender(d))

\* A released enrollment of a running campaign is worked on, also after a pause
\* and a resume (campaigns.py:338): it does not stay READY.
ReadyMovesOn ==
  \A e \in Enrollments :
    row[e].state = "READY" ~> (row[e].state # "READY" \/ status[campaignOf[e]] # "RUNNING")

-----------------------------------------------------------------------------
(* What comments and docstrings say and the code does not keep.              *)

\* An ended state is to "halt all scheduling permanently" (state_machine.py:141), whoever
\* holds a copy.
EndedForEver ==
  [][\A e \in Enrollments : row[e].state \in TERMINAL_STATES => row'[e].state = row[e].state]_vars

\* No step is emailed twice: the dispatch has "Double-Sending Protection" (send_service.py:51).
NoStepSentTwice == \A e \in Enrollments : \A k \in Steps : sent[e][k] <= 1

=============================================================================
