------------------------------- MODULE SendTask -------------------------------
(***************************************************************************)
(* send_campaign_email_task (apps/worker/tasks/send_email_tasks.py) and the *)
(* retry_with_jitter wrapper: a Celery message per dispatched enrollment,   *)
(* run by a worker whose session loads the enrollment once and works on     *)
(* that copy across a model call and a provider call.                       *)
(*                                                                         *)
(* A task identifier is a slot: it returns to "idle" when its message is    *)
(* gone.  MissingNames are the attributes the code reads that no model      *)
(* defines; reading one raises.  Messages are acknowledged when received,   *)
(* so a worker that dies loses the task.                                    *)
(***************************************************************************)
EXTENDS EmailDispatch

CONSTANTS
  SendTasks,         \* slots for send tasks queued or running at a time
  PromptCampaigns,   \* campaigns whose steps have prompt_instructions
  MAX_RETRIES,
  NoEnrollment

ASSUME SendAssumption ==
  /\ PromptCampaigns \subseteq Campaigns
  /\ MAX_RETRIES \in Nat
  /\ NoEnrollment \notin Enrollments

VARIABLES
  task,       \* the message or the running task of each slot
  seen,       \* the enrollment as the task's session last loaded it
  sent,       \* emails the provider accepted, per enrollment and step (up to CAP)
  unmarked    \* steps an attempt emailed, and ended by an exception before SENT

mailVars == <<sent, unmarked, dispatchVars>>
sendVars == <<task, seen, mailVars>>

Idle == [pc |-> "idle", enr |-> NoEnrollment, tries |-> 0]

SendTypeOK ==
  /\ task \in [SendTasks ->
       [pc : {"idle", "queued", "loaded", "drafted", "ready", "cleared", "dispatched", "marked"},
        enr : Enrollments \cup {NoEnrollment},
        tries : 0 .. MAX_RETRIES]]
  /\ \A t \in SendTasks : task[t].pc # "idle" => task[t].enr \in Enrollments
  /\ seen \in [SendTasks -> Row]
  /\ sent \in [Enrollments -> [Steps -> 0 .. CAP]]
  /\ unmarked \subseteq Enrollments \X Steps

SendInit ==
  /\ task = [t \in SendTasks |-> Idle]
  /\ seen = [t \in SendTasks |-> NotEnrolled]
  /\ sent = [e \in Enrollments |-> [k \in Steps |-> 0]]
  /\ unmarked = {}

-----------------------------------------------------------------------------

Campaign(t) == campaignOf[task[t].enr]
Lead(t)     == leadOf[task[t].enr]
At(t, pc)   == task[t].pc = pc
Goto(t, pc) == task' = [task EXCEPT ![t].pc = pc]

\* A faulty end: a task with nothing to do queues itself again.
Requeue(t) ==
  /\ Goto(t, "queued")
  /\ seen' = [seen EXCEPT ![t] = NotEnrolled]

\* The task returns, or its message is lost: its session is closed.
Return(t) ==
  /\ task' = [task EXCEPT ![t] = Idle]
  /\ seen' = [seen EXCEPT ![t] = NotEnrolled]

\* An exception leaves the task: it is queued again until its retries are used up.
Raise(t) ==
  /\ task' = [task EXCEPT ![t] =
                IF @.tries >= MAX_RETRIES THEN Idle
                ELSE [pc |-> "queued", enr |-> @.enr, tries |-> @.tries + 1]]
  /\ seen' = [seen EXCEPT ![t] = NotEnrolled]

\* The refresh behind the last commit raises: what is committed stays, and the task
\* starts over.
ReturnOrRaise(t) == Return(t) \/ ("late_error" \in Faults /\ Raise(t))

\* transition_lead_state and then return; a transition the table refuses raises.
MoveAndReturn(t, loaded, new_state) ==
  \/ /\ can_transition(loaded.state, new_state)
     /\ Writable(Campaign(t))
     /\ row' = Moved(task[t].enr, loaded, new_state)
     /\ ReturnOrRaise(t)
  \/ /\ ~can_transition(loaded.state, new_state)
     /\ Raise(t)
     /\ UNCHANGED row

\* send_campaign_email_task.delay(e)
Delay(t, e) ==
  /\ At(t, "idle")
  /\ task' = [task EXCEPT ![t] = [pc |-> "queued", enr |-> e, tries |-> 0]]
  /\ UNCHANGED <<seen, mailVars>>

-----------------------------------------------------------------------------

Stopped(t) ==
  \/ status[Campaign(t)] # "RUNNING"
  \/ row[task[t].enr].state \in TERMINAL_STATES

\* The campaign is not running, or the enrollment has ended: nothing is done.
SkipStopped(t) ==
  /\ At(t, "queued") /\ Stopped(t)
  /\ Return(t)
  /\ UNCHANGED <<storeVars, mailVars>>

Load(t) ==
  /\ At(t, "queued") /\ ~Stopped(t)
  /\ Goto(t, "loaded")
  /\ seen' = [seen EXCEPT ![t] = row[task[t].enr]]
  /\ UNCHANGED <<storeVars, mailVars>>

Checked(t) == At(t, "loaded") /\ "is_opted_out" \notin MissingNames

HaltSuppressed(t) ==
  /\ Checked(t) /\ is_email_suppressed(Lead(t))
  /\ MoveAndReturn(t, seen[t], "UNSUBSCRIBED")
  /\ UNCHANGED <<status, suppressed, optOut, locked, mailVars>>

Passed(t) == Checked(t) /\ ~is_email_suppressed(Lead(t))

\* The current step number has no step: the sequence is over.
NoStepLeft(t) ==
  /\ Passed(t) /\ seen[t].step > stepCount[Campaign(t)]
  /\ MoveAndReturn(t, seen[t], "COMPLETED")
  /\ UNCHANGED <<status, suppressed, optOut, locked, mailVars>>

HasStep(t) == Passed(t) /\ seen[t].step <= stepCount[Campaign(t)]

\* MailboxHealthStatus.WARMING is in the mailbox query, lead.title in the template.
MailboxQueryWorks == "WARMING" \notin MissingNames
TemplateWorks(c)  == c \in PromptCampaigns \/ "title" \notin MissingNames

\* lead.is_opted_out is read first of all, the other names once there is a step.
NamesFound(t) ==
  /\ "is_opted_out" \notin MissingNames
  /\ HasStep(t) => MailboxQueryWorks /\ TemplateWorks(Campaign(t))

FailsOnName(t) ==
  /\ At(t, "loaded") /\ ~NamesFound(t)
  /\ Raise(t)
  /\ UNCHANGED <<storeVars, mailVars>>

\* No mailbox has quota left: the task returns and leaves the enrollment as it is.
DeferNoMailbox(t) ==
  /\ HasStep(t) /\ MailboxQueryWorks
  /\ "no_mailbox" \in Faults
  /\ Return(t)
  /\ UNCHANGED <<storeVars, mailVars>>

\* The draft is held for human review.
HoldForReview(t) ==
  /\ HasStep(t) /\ MailboxQueryWorks
  /\ Campaign(t) \in PromptCampaigns
  /\ MoveAndReturn(t, seen[t], "HANDOFF")
  /\ UNCHANGED <<status, suppressed, optOut, locked, mailVars>>

\* The message is rendered, from the template or by a model call.
Render(t) ==
  /\ HasStep(t) /\ MailboxQueryWorks
  /\ TemplateWorks(Campaign(t))
  /\ Goto(t, IF seen[t].state = "READY" THEN "ready" ELSE "drafted")
  /\ UNCHANGED <<storeVars, seen, mailVars>>

\* The enrollment was not READY when loaded: move it there, or fail.
MakeReady(t) ==
  /\ At(t, "drafted")
  /\ \/ /\ can_transition(seen[t].state, "READY")
        /\ Writable(Campaign(t))
        /\ row' = Moved(task[t].enr, seen[t], "READY")
        /\ seen' = [seen EXCEPT ![t] = row'[task[t].enr]]
        /\ Goto(t, "ready")
     \/ /\ ~can_transition(seen[t].state, "READY")
        /\ Raise(t)
        /\ UNCHANGED row
  /\ UNCHANGED <<status, suppressed, optOut, locked, mailVars>>

-----------------------------------------------------------------------------
(* The task in EmailSendService.dispatch_email.                             *)

Clear(t) ==
  /\ At(t, "ready")
  /\ BeginDispatch(Lead(t))
  /\ Goto(t, "cleared")
  /\ UNCHANGED <<storeVars, seen, sent, unmarked>>

\* The lock stays busy through its retries, or the address is suppressed.
DispatchRefused(t) ==
  /\ At(t, "ready") /\ ~Dispatchable(Lead(t))
  /\ Raise(t)
  /\ UNCHANGED <<storeVars, mailVars>>

Emailed(t) == sent' = [sent EXCEPT ![task[t].enr][seen[t].step] = Counted(@)]

Send(t) ==
  /\ At(t, "cleared")
  /\ Emailed(t) /\ Accept(Lead(t), TRUE)
  /\ Goto(t, "dispatched")
  /\ UNCHANGED <<storeVars, seen, unmarked>>

\* A faulty handler: the refusal is swallowed, and the step counts as sent.
SwallowSendFailure(t) ==
  /\ At(t, "cleared") /\ "provider" \in Faults
  /\ AbortDispatch(Lead(t))
  /\ Goto(t, "dispatched")
  /\ UNCHANGED <<storeVars, seen, sent, unmarked>>

\* The provider refuses, or the request fails before it.
SendFails(t) ==
  /\ At(t, "cleared") /\ "provider" \in Faults
  /\ AbortDispatch(Lead(t))
  /\ Raise(t)
  /\ UNCHANGED <<storeVars, sent, unmarked>>

\* The provider takes the email, and the commit after it fails.
SendUnrecorded(t) ==
  /\ At(t, "cleared") /\ "lost_ack" \in Faults
  /\ Emailed(t) /\ Accept(Lead(t), FALSE)
  /\ unmarked' = unmarked \cup {<<task[t].enr, seen[t].step>>}
  /\ Raise(t)
  /\ UNCHANGED storeVars

-----------------------------------------------------------------------------

MarkSent(t) ==
  /\ At(t, "dispatched")
  /\ Writable(Campaign(t))
  /\ row' = Moved(task[t].enr, seen[t], "SENT")
  /\ seen' = [seen EXCEPT ![t] = row'[task[t].enr]]
  /\ Goto(t, "marked")
  /\ UNCHANGED <<status, suppressed, optOut, locked, mailVars>>

NextStepExists(t) == seen[t].step < stepCount[Campaign(t)]

\* lead.custom_fields_json is read for the lead's time zone.
ScheduleFails(t) ==
  /\ At(t, "marked") /\ NextStepExists(t)
  /\ "custom_fields_json" \in MissingNames
  /\ Raise(t)
  /\ UNCHANGED <<storeVars, mailVars>>

Advance(t) ==
  /\ At(t, "marked") /\ NextStepExists(t)
  /\ "custom_fields_json" \notin MissingNames
  /\ Writable(Campaign(t))
  /\ row' = [row EXCEPT ![task[t].enr] =
               [state |-> "WAITING", step |-> seen[t].step + 1, nextAction |-> "later"]]
  /\ ReturnOrRaise(t)
  /\ UNCHANGED <<status, suppressed, optOut, locked, mailVars>>

Complete(t) ==
  /\ At(t, "marked") /\ ~NextStepExists(t)
  /\ Writable(Campaign(t))
  /\ row' = Moved(task[t].enr, seen[t], "COMPLETED")
  /\ ReturnOrRaise(t)
  /\ UNCHANGED <<status, suppressed, optOut, locked, mailVars>>

\* The database or the soft time limit raises between two steps: what is committed
\* stays, also an email whose enrollment is not SENT yet.
SendError(t) ==
  /\ "error" \in Faults
  /\ task[t].pc \notin {"idle", "cleared"}
  /\ unmarked' = IF At(t, "dispatched") THEN unmarked \cup {<<task[t].enr, seen[t].step>>}
                 ELSE unmarked
  /\ Raise(t)
  /\ UNCHANGED <<storeVars, sent, dispatchVars>>

\* The worker dies (or hits task_time_limit); the message was acknowledged already.
SendCrash(t) ==
  /\ "crash" \in Faults
  /\ task[t].pc \notin {"idle", "queued"}
  /\ IF At(t, "cleared") THEN AbortDispatch(Lead(t)) ELSE UNCHANGED dispatchVars
  /\ Return(t)
  /\ UNCHANGED <<storeVars, sent, unmarked>>

\* The steps a live worker takes by itself, and those only a failure causes.
SendProgress(t) ==
  \/ SkipStopped(t) \/ Load(t) \/ FailsOnName(t) \/ HaltSuppressed(t)
  \/ NoStepLeft(t) \/ HoldForReview(t) \/ Render(t) \/ MakeReady(t)
  \/ Clear(t) \/ DispatchRefused(t) \/ Send(t)
  \/ MarkSent(t) \/ ScheduleFails(t) \/ Advance(t) \/ Complete(t)

SendFault(t) ==
  DeferNoMailbox(t) \/ SendFails(t) \/ SendUnrecorded(t) \/ SendError(t) \/ SendCrash(t)

SendNext == \E t \in SendTasks : SendProgress(t) \/ SendFault(t)

=============================================================================
