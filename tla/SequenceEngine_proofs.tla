------------------------ MODULE SequenceEngine_proofs ------------------------
(***************************************************************************)
(* Theorems of SequenceEngine, for every number of campaigns, leads, steps, *)
(* tasks, evaluators and deliveries: its types and what they carry; the     *)
(* order of the steps; and what a halt still lets through.                  *)
(***************************************************************************)
EXTENDS SequenceEngine, FiniteSetTheorems, TLAPS

USE DEF mailVars

-----------------------------------------------------------------------------
(* What the helpers of the actions preserve.                                *)

TaskOK ==
  /\ task \in [SendTasks ->
       [pc : {"idle", "queued", "loaded", "drafted", "ready", "cleared", "dispatched", "marked"},
        enr : Enrollments \cup {NoEnrollment},
        tries : 0 .. MAX_RETRIES]]
  /\ \A t \in SendTasks : task[t].pc # "idle" => task[t].enr \in Enrollments
  /\ seen \in [SendTasks -> Row]

LEMMA RowTypes ==
  /\ NotEnrolled \in Row
  /\ Enrolled \in Row
  /\ TERMINAL_STATES \subseteq LeadSequenceState
BY StoreAssumption DEF NotEnrolled, Enrolled, Row, Steps, TERMINAL_STATES, LeadSequenceState

LEMMA MovedType ==
  ASSUME row \in [Enrollments -> Row],
         NEW e \in Enrollments, NEW loaded, NEW new_state \in LeadSequenceState
  PROVE  Moved(e, loaded, new_state) \in [Enrollments -> Row]
BY DEF Moved, Row

LEMMA ReturnType ==
  ASSUME TaskOK, NEW t \in SendTasks, Return(t)
  PROVE  TaskOK'
BY SendAssumption, RowTypes DEF TaskOK, Return, Idle

LEMMA RaiseType ==
  ASSUME TaskOK, NEW t \in SendTasks, task[t].pc # "idle", Raise(t)
  PROVE  TaskOK'
<1>1. CASE task[t].tries >= MAX_RETRIES
  BY <1>1, SendAssumption, RowTypes DEF TaskOK, Raise, Idle
<1>2. CASE ~(task[t].tries >= MAX_RETRIES)
  <2>1. task[t].tries + 1 \in 0 .. MAX_RETRIES
    BY <1>2, SendAssumption DEF TaskOK
  <2> QED BY <1>2, <2>1, RowTypes DEF TaskOK, Raise
<1> QED BY <1>1, <1>2

LEMMA GotoType ==
  ASSUME TaskOK, NEW t \in SendTasks, task[t].pc # "idle",
         NEW pc \in {"loaded", "drafted", "ready", "cleared", "dispatched", "marked"},
         Goto(t, pc), seen' \in [SendTasks -> Row]
  PROVE  TaskOK'
BY DEF TaskOK, Goto

\* A task that is somewhere is at work on an enrollment.
LEMMA BusyTask ==
  ASSUME TaskOK, NEW t \in SendTasks, task[t].pc # "idle"
  PROVE  /\ task[t].enr \in Enrollments
         /\ Campaign(t) \in Campaigns /\ Lead(t) \in Leads
         /\ seen[t] \in Row /\ seen[t].step \in Steps
BY StoreAssumption DEF TaskOK, Campaign, Lead, Row

LEMMA ReturnOrRaiseType ==
  ASSUME TaskOK, NEW t \in SendTasks, task[t].pc # "idle", ReturnOrRaise(t)
  PROVE  TaskOK'
BY ReturnType, RaiseType DEF ReturnOrRaise

SentOK ==
  sent \in [Enrollments -> [Steps -> 0 .. CAP]] /\ unmarked \subseteq Enrollments \X Steps

LEMMA CountedType == \A n \in 0 .. CAP : Counted(n) \in 0 .. CAP
BY DEF CAP, Counted

LEMMA EmailedType ==
  ASSUME TaskOK, SentOK, NEW t \in SendTasks, task[t].pc # "idle", Emailed(t),
         unmarked' \in {unmarked, unmarked \cup {<<task[t].enr, seen[t].step>>}}
  PROVE  SentOK'
<1>1. unmarked' \subseteq Enrollments \X Steps
  BY BusyTask DEF SentOK
<1>2. sent' \in [Enrollments -> [Steps -> 0 .. CAP]]
  BY BusyTask, CountedType DEF SentOK, Emailed
<1> QED BY <1>1, <1>2 DEF SentOK

LEMMA DispatchType ==
  ASSUME DispatchTypeOK, NEW l \in Leads,
         BeginDispatch(l) \/ Accept(l, TRUE) \/ Accept(l, FALSE) \/ AbortDispatch(l)
                          \/ UNCHANGED dispatchVars
  PROVE  DispatchTypeOK'
<1>1. CASE BeginDispatch(l) BY <1>1 DEF DispatchTypeOK, BeginDispatch
<1>2. CASE AbortDispatch(l) BY <1>2 DEF DispatchTypeOK, AbortDispatch
<1>3. ASSUME NEW r \in BOOLEAN, Accept(l, r) PROVE DispatchTypeOK'
  BY <1>3, CountedType DEF DispatchTypeOK, Accept
<1>4. CASE UNCHANGED dispatchVars BY <1>4 DEF DispatchTypeOK, dispatchVars
<1> QED BY <1>1, <1>2, <1>3, <1>4

LEMMA MoveAndReturnType ==
  ASSUME TaskOK, row \in [Enrollments -> Row], NEW t \in SendTasks, task[t].pc # "idle",
         NEW loaded, NEW new_state \in LeadSequenceState, MoveAndReturn(t, loaded, new_state)
  PROVE  TaskOK' /\ row' \in [Enrollments -> Row]
<1>1. CASE can_transition(loaded.state, new_state)
  BY <1>1, BusyTask, MovedType, ReturnOrRaiseType DEF MoveAndReturn
<1>2. CASE ~can_transition(loaded.state, new_state)
  BY <1>2, RaiseType DEF MoveAndReturn
<1> QED BY <1>1, <1>2

-----------------------------------------------------------------------------
(* Every step of a send task keeps the types.                               *)

SendSideOK == TaskOK /\ SentOK /\ DispatchTypeOK /\ row \in [Enrollments -> Row]

LEMMA SendKeepsTypes ==
  ASSUME SendSideOK, NEW t \in SendTasks, SendProgress(t) \/ SendFault(t)
  PROVE  SendSideOK' /\ UNCHANGED <<status, suppressed, optOut, locked>>
<1> USE DEF SendSideOK
<1> DEFINE Goal == SendSideOK' /\ UNCHANGED <<status, suppressed, optOut, locked>>
<1>1. ASSUME UNCHANGED <<sent, unmarked>> PROVE SentOK'
  BY <1>1 DEF SentOK
<1>2. ASSUME UNCHANGED dispatchVars PROVE DispatchTypeOK'
  BY <1>2 DEF DispatchTypeOK, dispatchVars
<1>3. CASE SkipStopped(t)
  BY <1>1, <1>2, <1>3, ReturnType DEF SkipStopped, storeVars
<1>4. CASE Load(t)
  <2>1. task[t].pc # "idle"
    BY <1>4 DEF Load, At
  <2>2. seen' \in [SendTasks -> Row]
    BY <1>4, <2>1, BusyTask DEF Load, TaskOK
  <2> QED BY <1>1, <1>2, <1>4, <2>1, <2>2, GotoType DEF Load, storeVars
<1>5. CASE FailsOnName(t)
  BY <1>1, <1>2, <1>5, RaiseType DEF FailsOnName, At, storeVars
<1>6. CASE HaltSuppressed(t)
  BY <1>1, <1>2, <1>6, MoveAndReturnType
     DEF HaltSuppressed, Checked, At, LeadSequenceState, TERMINAL_STATES
<1>7. CASE NoStepLeft(t)
  BY <1>1, <1>2, <1>7, MoveAndReturnType
     DEF NoStepLeft, Passed, Checked, At, LeadSequenceState, TERMINAL_STATES
<1>8. CASE HoldForReview(t)
  BY <1>1, <1>2, <1>8, MoveAndReturnType
     DEF HoldForReview, HasStep, Passed, Checked, At, LeadSequenceState, TERMINAL_STATES
<1>9. CASE Render(t)
  BY <1>1, <1>2, <1>9, GotoType DEF Render, HasStep, Passed, Checked, At, storeVars, TaskOK
<1>10. CASE MakeReady(t)
  <2>1. task[t].pc # "idle" /\ "READY" \in LeadSequenceState
    BY <1>10 DEF MakeReady, At, LeadSequenceState
  <2>2. CASE can_transition(seen[t].state, "READY")
    <3>1. row' \in [Enrollments -> Row]
      BY <1>10, <2>1, <2>2, BusyTask, MovedType DEF MakeReady
    <3>2. seen' \in [SendTasks -> Row]
      BY <1>10, <2>1, <2>2, <3>1, BusyTask DEF MakeReady, TaskOK
    <3> QED BY <1>1, <1>2, <1>10, <2>1, <2>2, <3>1, <3>2, GotoType DEF MakeReady
  <2>3. CASE ~can_transition(seen[t].state, "READY")
    BY <1>1, <1>2, <1>10, <2>1, <2>3, RaiseType DEF MakeReady
  <2> QED BY <2>2, <2>3
<1>11. CASE Clear(t)
  BY <1>1, <1>11, GotoType, BusyTask, DispatchType DEF Clear, At, storeVars, TaskOK
<1>12. CASE DispatchRefused(t)
  BY <1>1, <1>2, <1>12, RaiseType DEF DispatchRefused, At, storeVars
<1>13. CASE Send(t)
  BY <1>13, GotoType, BusyTask, DispatchType, EmailedType DEF Send, At, storeVars, TaskOK
<1>14. CASE SendFails(t)
  BY <1>1, <1>14, RaiseType, BusyTask, DispatchType DEF SendFails, At, storeVars
<1>15. CASE SendUnrecorded(t)
  BY <1>15, RaiseType, BusyTask, DispatchType, EmailedType DEF SendUnrecorded, At, storeVars
<1>16. CASE MarkSent(t)
  <2>1. task[t].pc # "idle" /\ "SENT" \in LeadSequenceState
    BY <1>16 DEF MarkSent, At, LeadSequenceState
  <2>2. row' \in [Enrollments -> Row]
    BY <1>16, <2>1, BusyTask, MovedType DEF MarkSent
  <2>3. seen' \in [SendTasks -> Row]
    BY <1>16, <2>1, <2>2, BusyTask DEF MarkSent, TaskOK
  <2> QED BY <1>1, <1>2, <1>16, <2>1, <2>2, <2>3, GotoType DEF MarkSent
<1>17. CASE ScheduleFails(t)
  BY <1>1, <1>2, <1>17, RaiseType DEF ScheduleFails, At, storeVars
<1>18. CASE Advance(t)
  <2>1. task[t].pc # "idle"
    BY <1>18 DEF Advance, At
  <2>2. seen[t].step + 1 \in Steps
    BY <1>18, <2>1, BusyTask, StoreAssumption DEF Advance, NextStepExists, Steps
  <2>3. [state |-> "WAITING", step |-> seen[t].step + 1, nextAction |-> "later"] \in Row
    BY <2>2 DEF Row, LeadSequenceState
  <2>4. row' \in [Enrollments -> Row]
    BY <1>18, <2>3 DEF Advance
  <2> QED BY <1>1, <1>2, <1>18, <2>1, <2>4, ReturnOrRaiseType DEF Advance
<1>19. CASE Complete(t)
  <2>1. task[t].pc # "idle" /\ "COMPLETED" \in LeadSequenceState
    BY <1>19 DEF Complete, At, LeadSequenceState, TERMINAL_STATES
  <2>2. row' \in [Enrollments -> Row]
    BY <1>19, <2>1, BusyTask, MovedType DEF Complete
  <2> QED BY <1>1, <1>2, <1>19, <2>1, <2>2, ReturnOrRaiseType DEF Complete
<1>20. CASE DeferNoMailbox(t)
  BY <1>1, <1>2, <1>20, ReturnType DEF DeferNoMailbox, storeVars
<1>21. CASE SendCrash(t)
  BY <1>1, <1>2, <1>21, ReturnType, BusyTask, DispatchType DEF SendCrash, At, storeVars
<1>22. CASE SendError(t)
  <2>1. task[t].pc # "idle" /\ task[t].enr \in Enrollments /\ seen[t].step \in Steps
    BY <1>22, BusyTask DEF SendError
  <2>2. SentOK'
    BY <1>22, <2>1 DEF SendError, SentOK
  <2> QED BY <1>2, <1>22, <2>1, <2>2, RaiseType DEF SendError, storeVars
<1> QED
  BY <1>3, <1>4, <1>5, <1>6, <1>7, <1>8, <1>9, <1>10, <1>11, <1>12, <1>13,
     <1>14, <1>15, <1>16, <1>17, <1>18, <1>19, <1>20, <1>21, <1>22 DEF SendProgress, SendFault

-----------------------------------------------------------------------------
(* ... and so does every step of an evaluator, a delivery and a request.    *)

LEMMA ReleaseType ==
  ASSUME row \in [Enrollments -> Row], NEW e \in Enrollments,
         row' = [row EXCEPT ![e].state = "READY"]
  PROVE  row' \in [Enrollments -> Row]
BY DEF Row, LeadSequenceState

LEMMA SchedulerKeepsTypes ==
  ASSUME TypeOK, NEW ev \in Evaluators, SchedulerProgress(ev) \/ SchedulerFault(ev),
         UNCHANGED inboundVars
  PROVE  TypeOK'
<1> USE DEF TypeOK, StoreTypeOK, SchedulerTypeOK, SendTypeOK, DispatchTypeOK, InboundTypeOK,
            inboundVars, sendVars, dispatchVars, storeVars
<1>1. CASE Evaluate(ev)
  <2>1. PICK claimed \in (SUBSET Claimable) \ {{}} :
          /\ batch' = [batch EXCEPT ![ev] = claimed]
          /\ locked' = [locked EXCEPT ![ev] = claimed]
    BY <1>1 DEF Evaluate
  <2>2. claimed \subseteq Enrollments
    BY DEF Claimable
  <2> QED BY <1>1, <2>1, <2>2 DEF Evaluate
<1>2. ASSUME NEW e \in Enrollments, Release(ev, e) PROVE TypeOK'
  <2>1. row' \in [Enrollments -> Row]
    BY <1>2, ReleaseType DEF Release
  <2>2. StoreTypeOK' /\ SchedulerTypeOK'
    BY <1>2, <2>1 DEF Release
  <2>3. SendTypeOK' /\ DispatchTypeOK' /\ InboundTypeOK'
    BY <1>2 DEF Release
  <2> QED BY <2>2, <2>3
<1>3. CASE HandOver(ev)
  <2>1. PICK t \in SendTasks : Delay(t, handing[ev])
    BY <1>3 DEF HandOver
  <2>2. handing[ev] \in Enrollments
    BY <1>3 DEF HandOver
  <2>3. TaskOK'
    BY <2>1, <2>2, SendAssumption DEF Delay, TaskOK
  <2> QED BY <1>3, <2>1, <2>3 DEF HandOver, Delay, TaskOK
<1>4. CASE HandOverFails(ev)
  BY <1>4 DEF HandOverFails
<1>5. CASE EvaluatorCrash(ev)
  BY <1>5 DEF EvaluatorCrash
<1> QED BY <1>1, <1>2, <1>3, <1>4, <1>5 DEF SchedulerProgress, SchedulerFault

InboundOK == InboundTypeOK /\ StoreTypeOK /\ DispatchTypeOK

LEMMA UnloadedType == Unloaded \in [Enrollments -> Row]
BY RowTypes DEF Unloaded

LEMMA SenderType == \A d \in Deliveries : Sender(d) \in Leads /\ messageOf[d] \in Messages
BY InboundAssumption DEF Sender

LEMMA EndType ==
  ASSUME InboundTypeOK, NEW d \in Deliveries, NEW pc \in {"done", "failed"}, End(d, pc)
  PROVE  /\ inbound' \in [Deliveries ->
              [pc : {"queued", "checked", "classifying", "halting", "replying", "done", "failed"},
               open : BOOLEAN, adds : BOOLEAN, todo : SUBSET Enrollments,
               target : {"UNSUBSCRIBED", "COMPLETED", "REPLIED"}]]
         /\ inSeen' \in [Deliveries -> [Enrollments -> Row]]
BY UnloadedType DEF InboundTypeOK, End

LEMMA UnlockType ==
  ASSUME InboundTypeOK, NEW d \in Deliveries, Unlock(d) \/ UNCHANGED threadLock
  PROVE  threadLock' \in [Leads -> Deliveries \cup {NoDelivery}]
BY SenderType DEF InboundTypeOK, Unlock

LEMMA CommitMessageType ==
  ASSUME InboundOK, NEW d \in Deliveries, CommitMessage(d)
  PROVE  /\ recorded' \in [Messages -> Nat]
         /\ threadLock' \in [Leads -> Deliveries \cup {NoDelivery}]
         /\ suppressed' \subseteq Leads /\ optOut' \subseteq Leads
<1>1. CASE inbound[d].open
  BY <1>1, SenderType, UnlockType DEF InboundOK, InboundTypeOK, StoreTypeOK, CommitMessage
<1>2. CASE ~inbound[d].open
  BY <1>2, UnlockType DEF InboundOK, InboundTypeOK, StoreTypeOK, CommitMessage
<1> QED BY <1>1, <1>2

LEMMA CommitType ==
  ASSUME InboundOK, NEW d \in Deliveries, Commit(d)
  PROVE  /\ recorded' \in [Messages -> Nat]
         /\ threadLock' \in [Leads -> Deliveries \cup {NoDelivery}]
         /\ suppressed' \subseteq Leads /\ optOut' \subseteq Leads
         /\ DispatchTypeOK'
BY CommitMessageType, SenderType DEF Commit, InboundOK, DispatchTypeOK

LEMMA InboundKeepsTypes ==
  ASSUME InboundOK, NEW d \in Deliveries, InboundProgress(d) \/ InboundFault(d)
  PROVE  InboundOK'
<1> USE DEF InboundOK
<1>1. ASSUME UNCHANGED storeVars PROVE StoreTypeOK'
  BY <1>1 DEF StoreTypeOK, storeVars
<1>2. ASSUME UNCHANGED dispatchVars PROVE DispatchTypeOK'
  BY <1>2 DEF DispatchTypeOK, dispatchVars
<1>3. CASE Deduplicate(d)
  <2>1. CASE recorded[messageOf[d]] = 0
    <3>1. inbound' = [inbound EXCEPT ![d].pc = "checked"] /\ UNCHANGED inSeen
      BY <1>3, <2>1 DEF Deduplicate
    <3>2. UNCHANGED <<storeVars, dispatchVars, recorded, threadLock>>
      BY <1>3 DEF Deduplicate
    <3> QED BY <1>1, <1>2, <3>1, <3>2 DEF InboundTypeOK
  <2>2. CASE recorded[messageOf[d]] # 0
    BY <1>1, <1>2, <1>3, <2>2, EndType DEF Deduplicate, InboundTypeOK
  <2> QED BY <2>1, <2>2
<1>4. CASE Persist(d)
  <2>1. inSeen' \in [Deliveries -> [Enrollments -> Row]]
    BY <1>4, RowTypes DEF Persist, InboundTypeOK, StoreTypeOK
  <2>2. threadLock' \in [Leads -> Deliveries \cup {NoDelivery}]
    BY <1>4, SenderType DEF Persist, InboundTypeOK
  <2>3. {e \in EnrollmentsOf(Sender(d)) : row[e].state \notin {"UNSUBSCRIBED", "COMPLETED"}}
          \in SUBSET Enrollments
    BY DEF EnrollmentsOf
  <2>4. CASE IsOptOut(d)
    BY <1>1, <1>2, <1>4, <2>1, <2>2, <2>3, <2>4 DEF Persist, InboundTypeOK
  <2>5. CASE ~IsOptOut(d)
    <3>1. inbound' = [inbound EXCEPT ![d] = [@ EXCEPT !.pc = "classifying", !.open = TRUE]]
      BY <1>4, <2>5 DEF Persist
    <3>2. inbound'  \in [Deliveries ->
            [pc : {"queued", "checked", "classifying", "halting", "replying", "done", "failed"},
             open : BOOLEAN, adds : BOOLEAN, todo : SUBSET Enrollments,
             target : {"UNSUBSCRIBED", "COMPLETED", "REPLIED"}]]
      BY <3>1 DEF InboundTypeOK
    <3> QED BY <1>1, <1>2, <1>4, <2>1, <2>2, <3>2 DEF Persist, InboundTypeOK
  <2> QED BY <2>4, <2>5
<1>5. CASE IgnoreAutoReply(d)
  BY <1>5, CommitType, EndType DEF IgnoreAutoReply, InboundTypeOK, StoreTypeOK
<1>6. ASSUME NEW target \in {"COMPLETED", "REPLIED"}, Classify(d, target) PROVE InboundOK'
  BY <1>1, <1>2, <1>6 DEF Classify, InboundTypeOK
<1>7. ASSUME NEW e \in Enrollments, Halt(d, e) PROVE InboundOK'
  <2>1. inbound[d].target \in LeadSequenceState
    BY DEF InboundTypeOK, LeadSequenceState, TERMINAL_STATES
  <2>2. row' \in [Enrollments -> Row]
    BY <1>7, <2>1, MovedType DEF Halt, StoreTypeOK
  <2>3. StoreTypeOK' /\ DispatchTypeOK'
    BY <1>7, <2>2, CommitType DEF Halt, StoreTypeOK
  <2>4. inbound' = [inbound EXCEPT ![d].open = FALSE, ![d].todo = @ \ {e}]
    BY <1>7 DEF Halt
  <2>5. inbound[d].todo \ {e} \in SUBSET Enrollments
    BY DEF InboundTypeOK
  <2>6. InboundTypeOK'
    BY <1>7, <2>4, <2>5, CommitType DEF Halt, InboundTypeOK
  <2> QED BY <2>3, <2>6
<1>8. CASE HaltFails(d)
  BY <1>1, <1>2, <1>8, EndType, UnlockType DEF HaltFails, Fail, InboundTypeOK
<1>9. CASE Finish(d)
  BY <1>9, CommitType, EndType DEF Finish, InboundTypeOK, StoreTypeOK
<1>10. CASE BeginReply(d)
  BY <1>1, <1>10, DispatchType, SenderType DEF BeginReply, InboundTypeOK
<1>11. CASE Reply(d)
  BY <1>11, DispatchType, SenderType, CommitMessageType, EndType DEF Reply, InboundTypeOK, StoreTypeOK
<1>12. CASE ReplyFails(d)
  BY <1>12, SenderType, CommitMessageType, EndType
     DEF ReplyFails, InboundTypeOK, StoreTypeOK, DispatchTypeOK
<1>13. CASE InboundCrash(d)
  BY <1>1, <1>2, <1>13, EndType, UnlockType, DispatchType, SenderType
     DEF InboundCrash, Fail, InboundTypeOK
<1> QED
  BY <1>3, <1>4, <1>5, <1>6, <1>7, <1>8, <1>9, <1>10, <1>11, <1>12, <1>13
     DEF InboundProgress, InboundFault

LEMMA ApiKeepsTypes ==
  ASSUME StoreTypeOK, ApiNext
  PROVE  StoreTypeOK'
<1> USE DEF StoreTypeOK
<1>1. ASSUME NEW e \in Enrollments, enroll_leads(e) PROVE StoreTypeOK'
  BY <1>1, RowTypes DEF enroll_leads
<1>2. ASSUME NEW e \in Enrollments, TimePasses(e) PROVE StoreTypeOK'
  BY <1>2 DEF TimePasses, Row
<1>3. ASSUME NEW c \in Campaigns, launch_campaign(c) PROVE StoreTypeOK'
  BY <1>3 DEF launch_campaign, Row, CampaignState
<1>4. ASSUME NEW c \in Campaigns, NEW new \in CampaignState, set_status(c, new)
      PROVE  StoreTypeOK'
  BY <1>4 DEF set_status
<1>5. ASSUME NEW c \in Campaigns, pause_campaign(c) \/ resume_campaign(c) PROVE StoreTypeOK'
  BY <1>4, <1>5 DEF pause_campaign, resume_campaign, CampaignState
<1>6. ASSUME NEW c \in Campaigns, NEW new \in CampaignState, update_campaign(c, new)
      PROVE  StoreTypeOK'
  BY <1>4, <1>6 DEF update_campaign
<1>7. ASSUME NEW l \in Leads, book_meeting(l) PROVE StoreTypeOK'
  BY <1>7 DEF book_meeting, Row, LeadSequenceState, TERMINAL_STATES
<1>8. ASSUME NEW l \in Leads, add_to_suppression_list(l) PROVE StoreTypeOK'
  BY <1>8 DEF add_to_suppression_list
<1> QED BY <1>1, <1>2, <1>3, <1>5, <1>6, <1>7, <1>8 DEF ApiNext

-----------------------------------------------------------------------------

\* The variables keep their types; nothing else is assumed of the instance.
THEOREM TypeCorrect == Spec => []TypeOK
<1>1. Init => TypeOK
  BY StoreAssumption, SendAssumption, RowTypes, UnloadedType
     DEF Init, StoreInit, DispatchInit, SendInit, SchedulerInit, InboundInit, TypeOK, StoreTypeOK,
         DispatchTypeOK, SendTypeOK, SchedulerTypeOK, InboundTypeOK, CampaignState, Idle, CAP
<1>2. TypeOK /\ [Next]_vars => TypeOK'
  <2> SUFFICES ASSUME TypeOK, [Next]_vars PROVE TypeOK'
    OBVIOUS
  <2>1. ASSUME NEW t \in SendTasks, SendProgress(t) \/ SendFault(t),
               UNCHANGED <<schedulerVars, inboundVars>>
        PROVE  TypeOK'
    <3>1. SendSideOK' /\ UNCHANGED <<status, suppressed, optOut, locked>>
      BY <2>1, SendKeepsTypes
         DEF SendSideOK, TaskOK, SentOK, TypeOK, StoreTypeOK, SendTypeOK
    <3> QED BY <2>1, <3>1
           DEF SendSideOK, TaskOK, SentOK, TypeOK, StoreTypeOK, SendTypeOK, SchedulerTypeOK,
               InboundTypeOK, schedulerVars, inboundVars
  <2>2. ASSUME NEW ev \in Evaluators, SchedulerProgress(ev) \/ SchedulerFault(ev),
               UNCHANGED inboundVars
        PROVE  TypeOK'
    BY <2>2, SchedulerKeepsTypes
  <2>3. ASSUME NEW d \in Deliveries, InboundProgress(d) \/ InboundFault(d),
               UNCHANGED <<task, seen, sent, unmarked, schedulerVars>>
        PROVE  TypeOK'
    <3>1. InboundOK'
      BY <2>3, InboundKeepsTypes DEF InboundOK, TypeOK
    <3> QED BY <2>3, <3>1 DEF InboundOK, TypeOK, SendTypeOK, SchedulerTypeOK, schedulerVars
  <2>4. CASE ApiNext /\ UNCHANGED <<sendVars, schedulerVars, inboundVars>>
    BY <2>4, ApiKeepsTypes
       DEF TypeOK, DispatchTypeOK, SendTypeOK, SchedulerTypeOK, InboundTypeOK,
           sendVars, dispatchVars, schedulerVars, inboundVars
  <2>5. CASE UNCHANGED vars
    BY <2>5 DEF vars, TypeOK, StoreTypeOK, DispatchTypeOK, SendTypeOK, SchedulerTypeOK,
                InboundTypeOK, storeVars, sendVars, dispatchVars, schedulerVars, inboundVars
  <2> QED BY <2>1, <2>2, <2>3, <2>4, <2>5 DEF Next, SendNext, SchedulerNext, InboundNext
<1> QED BY <1>1, <1>2, PTL DEF Spec

-----------------------------------------------------------------------------
(***************************************************************************)
(* For exclusive claims (one evaluator at a time, or claims of a single     *)
(* row, whose first commit is also the last) an enrollment never has two    *)
(* send tasks, and its steps go out in order, none skipped and, when every  *)
(* acceptance is committed, none twice.  (With overlapping evaluators and   *)
(* larger claims it has two tasks: the run double_claim.)  The first part   *)
(* follows the state of the row, which a task keeps out of those a task may *)
(* start from; the second the step number: the one task an enrollment has   *)
(* works on the number in the row, increments it only past an accepted      *)
(* email, and a row whose current step has been emailed leaves the states   *)
(* an attempt can start from until it is incremented.                       *)
(***************************************************************************)

ExclusiveClaims ==
  /\ \/ \A a, b \in Evaluators : a = b
     \/ BATCH_LIMIT = 1 /\ IsFiniteSet(Enrollments)
  /\ "late_error" \notin Faults

\* The states from which an evaluator, or an enroll request, may start an enrollment.
Startable == {"NOT_ENROLLED", "QUEUED", "WAITING"}

\* A task that is live, or about to be queued, holds its row out of those states ...
Held ==
  /\ \A t \in SendTasks : Live(t) => row[task[t].enr].state \notin Startable
  /\ \A ev \in Evaluators : handing[ev] # NoEnrollment => row[handing[ev]].state \notin Startable

\* ... and a claimed row has no task yet, however long ago it was claimed.
ClaimedFresh ==
  \A ev \in Evaluators : \A e \in batch[ev] :
    /\ \A t \in SendTasks : Live(t) => task[t].enr # e
    /\ \A other \in Evaluators : handing[other] # e /\ (other # ev => e \notin batch[other])

SingleClaims ==
  BATCH_LIMIT = 1 /\ IsFiniteSet(Enrollments) =>
    \A ev \in Evaluators :
      batch[ev] = locked[ev] /\ \A e, f \in batch[ev] : e = f

DispatchInv == TypeOK /\ Held /\ ClaimedFresh /\ SingleClaims /\ AtMostOneLiveTask

-----------------------------------------------------------------------------
(* What a step of each process may do to rows and tasks.                    *)

Untouched == \A e \in Enrollments : row[e].state \notin Startable => row'[e].state \notin Startable

LEMMA MovedState ==
  ASSUME row \in [Enrollments -> Row], NEW e \in Enrollments, NEW loaded, NEW new_state
  PROVE  /\ \A f \in Enrollments : f # e => Moved(e, loaded, new_state)[f] = row[f]
         /\ Moved(e, loaded, new_state)[e].state = new_state
BY DEF Moved, Row

\* A send task's step changes its own slot and its own enrollment's row only, and
\* while it goes on the row stays out of the startable states.
SendEffect(t) ==
  /\ Live(t)
  /\ \A o \in SendTasks : o # t => task'[o] = task[o]
  /\ task'[t].pc # "idle" =>
       /\ task'[t].enr = task[t].enr
       /\ row'[task[t].enr] = row[task[t].enr] \/ row'[task[t].enr].state \notin Startable
  /\ task'[t].pc = "idle" => task'[t].enr = NoEnrollment
  /\ \A e \in Enrollments : e # task[t].enr => row'[e] = row[e]

LEMMA ReturnEffect ==
  ASSUME TaskOK, NEW t \in SendTasks, Return(t)
  PROVE  task'[t] = Idle /\ \A o \in SendTasks : o # t => task'[o] = task[o]
BY DEF TaskOK, Return

LEMMA RaiseEffect ==
  ASSUME TaskOK, NEW t \in SendTasks, Raise(t)
  PROVE  /\ \A o \in SendTasks : o # t => task'[o] = task[o]
         /\ task'[t].pc # "idle" => task'[t].enr = task[t].enr
         /\ task'[t].pc = "idle" => task'[t].enr = NoEnrollment
<1>1. CASE task[t].tries >= MAX_RETRIES
  BY <1>1 DEF TaskOK, Raise, Idle
<1>2. CASE ~(task[t].tries >= MAX_RETRIES)
  BY <1>2 DEF TaskOK, Raise
<1> QED BY <1>1, <1>2

LEMMA GotoEffect ==
  ASSUME TaskOK, NEW t \in SendTasks, NEW pc, pc # "idle", Goto(t, pc)
  PROVE  /\ \A o \in SendTasks : o # t => task'[o] = task[o]
         /\ task'[t].pc = pc /\ task'[t].enr = task[t].enr
BY DEF TaskOK, Goto

LEMMA MoveAndReturnEffect ==
  ASSUME SendSideOK, NEW t \in SendTasks, Live(t), NEW loaded, NEW new_state,
         "late_error" \notin Faults, MoveAndReturn(t, loaded, new_state)
  PROVE  SendEffect(t)
<1>1. task[t].enr \in Enrollments
  BY BusyTask DEF SendSideOK, Live
<1>2. CASE can_transition(loaded.state, new_state)
  BY <1>1, <1>2, MovedState, ReturnEffect
     DEF MoveAndReturn, ReturnOrRaise, SendEffect, SendSideOK, Idle
<1>3. CASE ~can_transition(loaded.state, new_state)
  BY <1>1, <1>3, RaiseEffect DEF MoveAndReturn, SendEffect, SendSideOK
<1> QED BY <1>2, <1>3

LEMMA SendEffects ==
  ASSUME SendSideOK, "late_error" \notin Faults, NEW t \in SendTasks, SendProgress(t) \/ SendFault(t)
  PROVE  SendEffect(t)
<1> USE DEF SendSideOK
<1>1. ASSUME Live(t), Return(t), UNCHANGED row PROVE SendEffect(t)
  BY <1>1, ReturnEffect DEF SendEffect, Idle
<1>2. ASSUME Live(t), Raise(t), UNCHANGED row PROVE SendEffect(t)
  BY <1>2, RaiseEffect DEF SendEffect
<1>3. ASSUME Live(t), NEW pc, pc # "idle", Goto(t, pc), UNCHANGED row PROVE SendEffect(t)
  BY <1>3, GotoEffect DEF SendEffect
<1>4. CASE SkipStopped(t) BY <1>1, <1>4 DEF SkipStopped, At, Live, storeVars
<1>5. CASE Load(t) BY <1>3, <1>5 DEF Load, At, Live, storeVars
<1>6. CASE FailsOnName(t) BY <1>2, <1>6 DEF FailsOnName, At, Live, storeVars
<1>7. CASE HaltSuppressed(t)
  BY <1>7, MoveAndReturnEffect DEF HaltSuppressed, Checked, At, Live
<1>8. CASE NoStepLeft(t)
  BY <1>8, MoveAndReturnEffect DEF NoStepLeft, Passed, Checked, At, Live
<1>9. CASE HoldForReview(t)
  BY <1>9, MoveAndReturnEffect DEF HoldForReview, HasStep, Passed, Checked, At, Live
<1>10. CASE Render(t)
  BY <1>3, <1>10 DEF Render, HasStep, Passed, Checked, At, Live, storeVars
<1>11. CASE MakeReady(t)
  <2>1. Live(t) /\ task[t].enr \in Enrollments
    BY <1>11, BusyTask DEF MakeReady, At, Live
  <2>2. CASE can_transition(seen[t].state, "READY")
    BY <1>11, <2>1, <2>2, MovedState, GotoEffect DEF MakeReady, SendEffect, Startable
  <2>3. CASE ~can_transition(seen[t].state, "READY")
    BY <1>2, <1>11, <2>1, <2>3 DEF MakeReady
  <2> QED BY <2>2, <2>3
<1>12. CASE Clear(t) BY <1>3, <1>12 DEF Clear, At, Live, storeVars
<1>13. CASE DispatchRefused(t) BY <1>2, <1>13 DEF DispatchRefused, At, Live, storeVars
<1>14. CASE Send(t) BY <1>3, <1>14 DEF Send, At, Live, storeVars
<1>15. CASE SendFails(t) BY <1>2, <1>15 DEF SendFails, At, Live, storeVars
<1>16. CASE SendUnrecorded(t) BY <1>2, <1>16 DEF SendUnrecorded, At, Live, storeVars
<1>17. CASE MarkSent(t)
  <2>1. Live(t) /\ task[t].enr \in Enrollments
    BY <1>17, BusyTask DEF MarkSent, At, Live
  <2> QED BY <1>17, <2>1, MovedState, GotoEffect DEF MarkSent, SendEffect, Startable
<1>18. CASE ScheduleFails(t) BY <1>2, <1>18 DEF ScheduleFails, At, Live, storeVars
<1>19. CASE Advance(t)
  <2>1. Live(t) /\ \A e \in Enrollments : e # task[t].enr => row'[e] = row[e]
    BY <1>19 DEF Advance, At, Live
  <2> QED BY <1>19, <2>1, ReturnEffect DEF Advance, ReturnOrRaise, SendEffect, Idle
<1>20. CASE Complete(t)
  <2>1. Live(t) /\ task[t].enr \in Enrollments
    BY <1>20, BusyTask DEF Complete, At, Live
  <2> QED BY <1>20, <2>1, MovedState, ReturnEffect DEF Complete, ReturnOrRaise, SendEffect, Idle
<1>21. CASE DeferNoMailbox(t)
  BY <1>1, <1>21 DEF DeferNoMailbox, HasStep, Passed, Checked, At, Live, storeVars
<1>22. CASE SendCrash(t) BY <1>1, <1>22 DEF SendCrash, Live, storeVars
<1>23. CASE SendError(t) BY <1>2, <1>23 DEF SendError, Live, storeVars
<1> QED
  BY <1>4, <1>5, <1>6, <1>7, <1>8, <1>9, <1>10, <1>11, <1>12, <1>13, <1>14, <1>15,
     <1>16, <1>17, <1>18, <1>19, <1>20, <1>21, <1>22, <1>23 DEF SendProgress, SendFault

LEMMA InboundUntouched ==
  ASSUME InboundOK, NEW d \in Deliveries, InboundProgress(d) \/ InboundFault(d)
  PROVE  Untouched /\ UNCHANGED locked
<1>1. ASSUME NEW e \in Enrollments, Halt(d, e) PROVE Untouched /\ UNCHANGED locked
  <2>1. inbound[d].target \notin Startable
    BY DEF InboundOK, InboundTypeOK, Startable
  <2> QED BY <1>1, <2>1, MovedState DEF Halt, Untouched, InboundOK, StoreTypeOK
<1>2. ASSUME UNCHANGED <<row, locked>> PROVE Untouched /\ UNCHANGED locked
  BY <1>2 DEF Untouched
<1> QED
  BY <1>1, <1>2 DEF InboundProgress, InboundFault, Deduplicate, Persist, IgnoreAutoReply, Classify,
     HaltFails, Fail, Finish, BeginReply, Reply, ReplyFails, InboundCrash, storeVars

LEMMA ApiUntouched ==
  ASSUME StoreTypeOK, ApiNext
  PROVE  Untouched /\ UNCHANGED locked
<1> USE DEF StoreTypeOK, Untouched, Startable
<1>1. ASSUME NEW e \in Enrollments, enroll_leads(e) \/ TimePasses(e)
      PROVE  Untouched /\ UNCHANGED locked
  BY <1>1 DEF enroll_leads, TimePasses, NotEnrolled, Row
<1>2. ASSUME NEW c \in Campaigns, launch_campaign(c) PROVE Untouched /\ UNCHANGED locked
  BY <1>2 DEF launch_campaign, Row
<1>3. ASSUME NEW l \in Leads, book_meeting(l) PROVE Untouched /\ UNCHANGED locked
  BY <1>3 DEF book_meeting, Row
<1> QED
  BY <1>1, <1>2, <1>3 DEF ApiNext, pause_campaign, resume_campaign, update_campaign, set_status,
     add_to_suppression_list

-----------------------------------------------------------------------------
(* The inductive step.                                                      *)

LEMMA NoEnrollmentApart == NoEnrollment \notin Enrollments
BY SendAssumption

LEMMA SendKeepsInv ==
  ASSUME DispatchInv, "late_error" \notin Faults, NEW t \in SendTasks, SendProgress(t) \/ SendFault(t),
         UNCHANGED <<schedulerVars, inboundVars>>
  PROVE  Held' /\ ClaimedFresh' /\ SingleClaims' /\ AtMostOneLiveTask'
<1>1. SendSideOK
  BY DEF DispatchInv, TypeOK, StoreTypeOK, SendTypeOK, SendSideOK, TaskOK, SentOK
<1>2. SendEffect(t) /\ UNCHANGED <<batch, handing, locked>>
  BY <1>1, SendEffects, SendKeepsTypes DEF schedulerVars
<1>3. \A o \in SendTasks : task'[o].pc # "idle" =>
        task[o].pc # "idle" /\ task'[o].enr = task[o].enr /\ task[o].enr \in Enrollments
  BY <1>1, <1>2 DEF SendEffect, Live, SendSideOK, TaskOK
<1>4. \A ev \in Evaluators : handing[ev] # NoEnrollment =>
        handing[ev] \in Enrollments /\ handing[ev] # task[t].enr
  BY <1>2 DEF DispatchInv, TypeOK, SchedulerTypeOK, AtMostOneLiveTask, SendEffect
<1>5. \A o \in SendTasks : task[o].pc # "idle" /\ o # t => task[o].enr # task[t].enr
  BY <1>1, <1>2 DEF DispatchInv, AtMostOneLiveTask, Live, SendEffect, SendSideOK, TaskOK
<1>6. Held'
  <2>1. ASSUME NEW o \in SendTasks, task'[o].pc # "idle"
        PROVE  row'[task'[o].enr].state \notin Startable
    <3>1. CASE o = t
      BY <1>2, <1>3, <2>1, <3>1 DEF SendEffect, DispatchInv, Held, Live
    <3>2. CASE o # t
      BY <1>2, <1>3, <1>5, <2>1, <3>2 DEF SendEffect, DispatchInv, Held, Live
    <3> QED BY <3>1, <3>2
  <2>2. ASSUME NEW ev \in Evaluators, handing'[ev] # NoEnrollment
        PROVE  row'[handing'[ev]].state \notin Startable
    BY <1>2, <1>4, <2>2 DEF SendEffect, DispatchInv, Held
  <2> QED BY <2>1, <2>2 DEF Held, Live, Startable
<1>7. ClaimedFresh'
  BY <1>2, <1>3 DEF DispatchInv, ClaimedFresh, Live
<1>8. SingleClaims'
  BY <1>2 DEF DispatchInv, SingleClaims
<1>9. AtMostOneLiveTask'
  <2>1. ASSUME NEW e \in Enrollments, NEW o1 \in SendTasks, NEW o2 \in SendTasks,
               task'[o1].pc # "idle", task'[o2].pc # "idle",
               task'[o1].enr = e, task'[o2].enr = e
        PROVE  o1 = o2
    BY <1>3, <2>1 DEF DispatchInv, AtMostOneLiveTask, Live
  <2>2. ASSUME NEW e \in Enrollments, NEW ev \in Evaluators, handing[ev] = e,
               NEW o \in SendTasks, task'[o].pc # "idle"
        PROVE  task'[o].enr # e
    BY <1>3, <2>2 DEF DispatchInv, AtMostOneLiveTask, Live
  <2>3. ASSUME NEW e \in Enrollments, NEW ev \in Evaluators, handing[ev] = e,
               NEW other \in Evaluators, handing[other] = e
        PROVE  other = ev
    BY <2>3 DEF DispatchInv, AtMostOneLiveTask
  <2> QED BY <1>2, <2>1, <2>2, <2>3 DEF AtMostOneLiveTask, Live
<1> QED BY <1>6, <1>7, <1>8, <1>9

LEMMA ClaimEffect ==
  ASSUME DispatchInv, NEW ev \in Evaluators, Evaluate(ev)
  PROVE  \E claimed \in SUBSET Enrollments :
           /\ batch' = [batch EXCEPT ![ev] = claimed]
           /\ locked' = [locked EXCEPT ![ev] = claimed]
           /\ \A e \in claimed : row[e].state \in {"QUEUED", "WAITING"} /\ Writable(campaignOf[e])
           /\ BATCH_LIMIT = 1 /\ IsFiniteSet(Enrollments) => \A e, f \in claimed : e = f
<1>1. PICK claimed \in (SUBSET Claimable) \ {{}} :
        /\ \/ claimed = Claimable /\ Cardinality(claimed) <= BATCH_LIMIT
           \/ Cardinality(claimed) = BATCH_LIMIT
        /\ batch' = [batch EXCEPT ![ev] = claimed]
        /\ locked' = [locked EXCEPT ![ev] = claimed]
  BY DEF Evaluate
<1>2. claimed \subseteq Enrollments
      /\ \A e \in claimed : row[e].state \in {"QUEUED", "WAITING"} /\ Writable(campaignOf[e])
  BY DEF Claimable, Due
<1>3. ASSUME BATCH_LIMIT = 1, IsFiniteSet(Enrollments), NEW e \in claimed, NEW f \in claimed
      PROVE  e = f
  <2>1. IsFiniteSet(claimed)
    BY <1>2, <1>3, FS_Subset
  <2>2. Cardinality(claimed) \in Nat /\ Cardinality(claimed) # 0
    BY <1>1, <2>1, FS_CardinalityType, FS_EmptySet
  <2>3. Cardinality(claimed) = 1
    BY <1>1, <1>3, <2>2
  <2> QED BY <1>3, <2>1, <2>3, FS_Singleton
<1> QED BY <1>1, <1>2, <1>3

LEMMA SchedulerKeepsInv ==
  ASSUME ExclusiveClaims, DispatchInv, NEW ev \in Evaluators,
         SchedulerProgress(ev) \/ SchedulerFault(ev)
  PROVE  Held' /\ ClaimedFresh' /\ SingleClaims' /\ AtMostOneLiveTask'
<1> USE DEF DispatchInv
<1> DEFINE Goal == Held' /\ ClaimedFresh' /\ SingleClaims' /\ AtMostOneLiveTask'
<1>1. /\ \A t \in SendTasks : task[t].pc # "idle" => task[t].enr \in Enrollments
      /\ batch \in [Evaluators -> SUBSET Enrollments]
      /\ handing \in [Evaluators -> Enrollments \cup {NoEnrollment}]
      /\ row \in [Enrollments -> Row]
      /\ locked \in [Evaluators -> SUBSET Enrollments]
      /\ \A t \in SendTasks : task[t].enr \in Enrollments \cup {NoEnrollment}
  BY DEF TypeOK, SendTypeOK, SchedulerTypeOK, StoreTypeOK
<1>2. CASE Evaluate(ev)
  <2>1. PICK claimed \in SUBSET Enrollments :
          /\ batch' = [batch EXCEPT ![ev] = claimed]
          /\ locked' = [locked EXCEPT ![ev] = claimed]
          /\ \A e \in claimed : row[e].state \in {"QUEUED", "WAITING"} /\ Writable(campaignOf[e])
          /\ BATCH_LIMIT = 1 /\ IsFiniteSet(Enrollments) => \A e, f \in claimed : e = f
    BY <1>2, ClaimEffect
  <2>2. UNCHANGED <<row, task, handing>>
    BY <1>2 DEF Evaluate, sendVars
  <2>3. \A e \in claimed : \A other \in Evaluators : other # ev => e \notin batch[other]
    <3>1. CASE \A a, b \in Evaluators : a = b
      BY <3>1
    <3>2. CASE BATCH_LIMIT = 1 /\ IsFiniteSet(Enrollments)
      BY <2>1, <3>2 DEF SingleClaims, Writable
    <3> QED BY <3>1, <3>2 DEF ExclusiveClaims
  <2>4. Held' /\ AtMostOneLiveTask'
    BY <2>2 DEF Held, AtMostOneLiveTask, Live
  <2>5. ClaimedFresh'
    <3>1. \A e \in claimed :
            /\ \A t \in SendTasks : task[t].pc # "idle" => task[t].enr # e
            /\ \A other \in Evaluators : handing[other] # e
      BY <1>1, <2>1, NoEnrollmentApart DEF Held, Live, Startable
    <3> QED BY <1>1, <2>1, <2>2, <2>3, <3>1 DEF ClaimedFresh, Live
  <2>6. SingleClaims'
    BY <1>1, <2>1 DEF SingleClaims
  <2> QED BY <2>4, <2>5, <2>6
<1>3. ASSUME NEW e \in Enrollments, Release(ev, e) PROVE Goal
  <2>1. /\ e \in batch[ev] /\ handing[ev] = NoEnrollment
        /\ row' = [row EXCEPT ![e].state = "READY"]
        /\ locked' = [locked EXCEPT ![ev] = {}]
        /\ batch' = [batch EXCEPT ![ev] = @ \ {e}]
        /\ handing' = [handing EXCEPT ![ev] = e]
        /\ UNCHANGED task
    BY <1>3 DEF Release, sendVars
  <2>2. \A f \in Enrollments : row'[f].state \in Startable => row[f].state \in Startable
    BY <1>1, <2>1 DEF Startable, Row
  <2>3. row'[e].state = "READY"
    BY <1>1, <2>1 DEF Row
  <2>4. Held'
    BY <1>1, <2>1, <2>2, <2>3 DEF Held, Live, Startable
  <2>5. ClaimedFresh'
    BY <1>1, <2>1 DEF ClaimedFresh, Live
  <2>6. SingleClaims'
    <3>1. SUFFICES ASSUME BATCH_LIMIT = 1, IsFiniteSet(Enrollments), NEW a \in Evaluators
                   PROVE  batch'[a] = locked'[a] /\ \A f, g \in batch'[a] : f = g
      BY DEF SingleClaims
    <3>2. batch[a] = locked[a] /\ \A f, g \in batch[a] : f = g
      BY <3>1 DEF SingleClaims
    <3>3. CASE a = ev
      BY <1>1, <2>1, <3>2, <3>3
    <3>4. CASE a # ev
      BY <1>1, <2>1, <3>2, <3>4
    <3> QED BY <3>3, <3>4
  <2>7. AtMostOneLiveTask'
    <3>1. \A t \in SendTasks : task[t].pc # "idle" => task[t].enr # e
      BY <2>1 DEF ClaimedFresh, Live
    <3>2. \A other \in Evaluators : handing[other] # e
      BY <2>1 DEF ClaimedFresh
    <3>3. \A other \in Evaluators :
            handing'[other] = IF other = ev THEN e ELSE handing[other]
      BY <1>1, <2>1
    <3> QED BY <2>1, <3>1, <3>2, <3>3 DEF AtMostOneLiveTask, Live
  <2> QED BY <2>4, <2>5, <2>6, <2>7
<1>4. CASE HandOver(ev)
  <2>1. PICK t \in SendTasks : Delay(t, handing[ev])
    BY <1>4 DEF HandOver
  <2>2. /\ handing[ev] \in Enrollments
        /\ task[t].pc = "idle"
        /\ task' = [task EXCEPT ![t] = [pc |-> "queued", enr |-> handing[ev], tries |-> 0]]
        /\ handing' = [handing EXCEPT ![ev] = NoEnrollment]
        /\ UNCHANGED <<row, batch, locked>>
    BY <1>1, <1>4, <2>1 DEF HandOver, Delay, At, storeVars
  <2>3. /\ task'[t].enr = handing[ev]
        /\ \A o \in SendTasks : o # t => task'[o] = task[o]
    BY <1>1, <2>2 DEF TypeOK, SendTypeOK
  <2>4. Held'
    <3>1. \A o \in SendTasks : task'[o].pc # "idle" => row[task'[o].enr].state \notin Startable
      BY <2>2, <2>3, NoEnrollmentApart DEF Held, Live
    <3>2. \A a \in Evaluators : handing'[a] # NoEnrollment => handing'[a] = handing[a]
      BY <1>1, <2>2
    <3> QED BY <2>2, <3>1, <3>2 DEF Held, Live, Startable
  <2>5. ClaimedFresh'
    BY <1>1, <2>2, <2>3, NoEnrollmentApart DEF ClaimedFresh, Live
  <2>6. SingleClaims'
    BY <2>2 DEF SingleClaims
  <2>7. AtMostOneLiveTask'
    BY <1>1, <2>2, <2>3, NoEnrollmentApart DEF AtMostOneLiveTask, Live
  <2> QED BY <2>4, <2>5, <2>6, <2>7
<1>5. CASE HandOverFails(ev)
  <2>1. handing' = [handing EXCEPT ![ev] = NoEnrollment] /\ UNCHANGED <<row, task, batch, locked>>
    BY <1>5 DEF HandOverFails, storeVars, sendVars
  <2> QED BY <1>1, <2>1, NoEnrollmentApart
          DEF Held, ClaimedFresh, SingleClaims, AtMostOneLiveTask, Live
<1>6. CASE EvaluatorCrash(ev)
  <2>1. /\ batch' = [batch EXCEPT ![ev] = {}]
        /\ handing' = [handing EXCEPT ![ev] = NoEnrollment]
        /\ locked' = [locked EXCEPT ![ev] = {}]
        /\ UNCHANGED <<row, task>>
    BY <1>6 DEF EvaluatorCrash, sendVars
  <2> QED BY <1>1, <2>1, NoEnrollmentApart
          DEF Held, ClaimedFresh, SingleClaims, AtMostOneLiveTask, Live
<1> QED BY <1>2, <1>3, <1>4, <1>5, <1>6 DEF SchedulerProgress, SchedulerFault

LEMMA UntouchedKeepsInv ==
  ASSUME DispatchInv, Untouched, UNCHANGED <<task, batch, handing, locked>>
  PROVE  Held' /\ ClaimedFresh' /\ SingleClaims' /\ AtMostOneLiveTask'
<1>1. /\ \A t \in SendTasks : task[t].pc # "idle" => task[t].enr \in Enrollments
      /\ handing \in [Evaluators -> Enrollments \cup {NoEnrollment}]
  BY DEF DispatchInv, TypeOK, SendTypeOK, SchedulerTypeOK
<1>2. Held'
  BY <1>1 DEF DispatchInv, Held, Live, Untouched
<1> QED BY <1>2 DEF DispatchInv, ClaimedFresh, SingleClaims, AtMostOneLiveTask, Live

LEMMA DispatchInvHolds == ExclusiveClaims /\ Spec => []DispatchInv
<1> SUFFICES ASSUME ExclusiveClaims PROVE Spec => []DispatchInv
  OBVIOUS
<1> DEFINE Inv == Held /\ ClaimedFresh /\ SingleClaims /\ AtMostOneLiveTask
<1>1. Init => Inv
  BY NoEnrollmentApart
     DEF Init, StoreInit, SendInit, SchedulerInit, Idle, Held, ClaimedFresh, SingleClaims,
         AtMostOneLiveTask, Live
<1>2. TypeOK /\ Inv /\ [Next]_vars => Inv'
  <2> SUFFICES ASSUME TypeOK, Inv, [Next]_vars PROVE Inv'
    OBVIOUS
  <2>1. DispatchInv
    BY DEF DispatchInv
  <2>2. ASSUME NEW t \in SendTasks, SendProgress(t) \/ SendFault(t),
               UNCHANGED <<schedulerVars, inboundVars>>
        PROVE  Inv'
    BY <2>1, <2>2, SendKeepsInv DEF ExclusiveClaims
  <2>3. ASSUME NEW ev \in Evaluators, SchedulerProgress(ev) \/ SchedulerFault(ev)
        PROVE  Inv'
    BY <2>1, <2>3, SchedulerKeepsInv
  <2>4. ASSUME NEW d \in Deliveries, InboundProgress(d) \/ InboundFault(d),
               UNCHANGED <<task, seen, sent, unmarked, schedulerVars>>
        PROVE  Inv'
    BY <2>1, <2>4, InboundUntouched, UntouchedKeepsInv
       DEF DispatchInv, TypeOK, InboundOK, schedulerVars
  <2>5. CASE ApiNext /\ UNCHANGED <<sendVars, schedulerVars, inboundVars>>
    BY <2>1, <2>5, ApiUntouched, UntouchedKeepsInv
       DEF DispatchInv, TypeOK, sendVars, schedulerVars
  <2>6. CASE UNCHANGED vars
    BY <2>1, <2>6, UntouchedKeepsInv DEF Untouched, vars, storeVars, sendVars, schedulerVars
  <2> QED BY <2>2, <2>3, <2>4, <2>5, <2>6 DEF Next, SendNext, SchedulerNext, InboundNext
<1>3. TypeOK /\ Inv => DispatchInv
  BY DEF DispatchInv
<1> HIDE DEF Inv
<1> QED BY <1>1, <1>2, <1>3, TypeCorrect, PTL DEF Spec

\* No enrollment has two tasks queued, running or about to be queued, whatever
\* crashes, retries, pauses, bookings and inbound emails come between, provided
\* that evaluations do not overlap or that they claim one row at a time.
THEOREM DispatchedOnce == ExclusiveClaims /\ Spec => []AtMostOneLiveTask
<1>1. DispatchInv => AtMostOneLiveTask
  BY DEF DispatchInv
<1> QED BY <1>1, DispatchInvHolds, PTL

-----------------------------------------------------------------------------
(* The step number.                                                          *)

Earlier(e, k) == \A j \in Steps : j < k => sent[e][j] > 0

\* An enrollment's row and its emails are past accepted steps only ...
InOrder(e) ==
  /\ Earlier(e, row[e].step)
  /\ \A k \in Steps : sent[e][k] > 0 => Earlier(e, k)

\* ... and its task's copy has the row's step number until the task writes it.
OnStep(t) ==
  Live(t) /\ ~At(t, "queued") =>
    /\ row[task[t].enr].step = seen[t].step
    /\ At(t, "dispatched") \/ At(t, "marked") => sent[task[t].enr][seen[t].step] > 0

OrderInv == (\A e \in Enrollments : InOrder(e)) /\ (\A t \in SendTasks : OnStep(t))

\* The states of an enrollment whose current step has been emailed, its attempt
\* apart; none of them can be moved to READY.
After == {"SENT", "REPLIED"} \cup TERMINAL_STATES

Unsent(e) == sent[e][row[e].step] = 0

Repeatable(e, k) == <<e, k>> \in unmarked

\* Emails are counted once but for unmarked steps, none is ahead of the row, and what
\* may start is unsent.
Once(e) ==
  /\ \A k \in Steps : sent[e][k] <= 1 \/ Repeatable(e, k)
  /\ \A k \in Steps : k > row[e].step => sent[e][k] = 0
  /\ row[e].state \in Startable => Unsent(e)

\* The current step has not been emailed, or not been marked.
Free(e) == Unsent(e) \/ Repeatable(e, row[e].step)

\* An attempt that can still reach the provider is at a step not emailed, or unmarked.
Attempt(t) ==
  Live(t) =>
    /\ ~At(t, "dispatched") /\ ~Free(task[t].enr) => row[task[t].enr].state \in After
    /\ At(t, "loaded") \/ At(t, "drafted") => Free(task[t].enr) \/ seen[t].state \in After
    /\ At(t, "ready") \/ At(t, "cleared") => Free(task[t].enr)

ClaimsUnsent ==
  \A ev \in Evaluators : \A e \in Enrollments : e \in batch[ev] \/ handing[ev] = e => Unsent(e)

OnceInv ==
  (\A e \in Enrollments : Once(e)) /\ (\A t \in SendTasks : Attempt(t)) /\ ClaimsUnsent

StepInv == OrderInv /\ OnceInv

-----------------------------------------------------------------------------
(* What a step of a send task does to its enrollment's row and emails.      *)

\* It leaves other tasks, rows and emails alone.
Elsewhere(t) ==
  /\ \A o \in SendTasks : o # t => task'[o] = task[o] /\ seen'[o] = seen[o]
  /\ \A e \in Enrollments : e # task[t].enr => row'[e] = row[e] /\ sent'[e] = sent[e]
  /\ unmarked \subseteq unmarked'

LEMMA SeenElsewhere ==
  ASSUME SendSideOK, NEW t \in SendTasks, SendProgress(t) \/ SendFault(t)
  PROVE  \A o \in SendTasks : o # t => seen'[o] = seen[o]
<1>1. SUFFICES ASSUME NEW o \in SendTasks, o # t PROVE seen'[o] = seen[o]
  OBVIOUS
<1>2. seen \in [SendTasks -> Row]
  BY DEF SendSideOK, TaskOK
<1>3. CASE UNCHANGED seen \/ Return(t) \/ Raise(t) \/ (\E r : seen' = [seen EXCEPT ![t] = r])
  BY <1>1, <1>2, <1>3 DEF Return, Raise
<1>4. CASE SkipStopped(t) \/ FailsOnName(t) \/ DispatchRefused(t) \/ ScheduleFails(t) \/ Advance(t)
           \/ Complete(t) \/ DeferNoMailbox(t) \/ SendCrash(t) \/ SendFails(t) \/ SendUnrecorded(t)
           \/ SendError(t)
  BY <1>3, <1>4 DEF SkipStopped, FailsOnName, DispatchRefused, ScheduleFails, Advance, Complete,
     ReturnOrRaise, DeferNoMailbox, SendCrash, SendFails, SendUnrecorded, SendError
<1>5. CASE HaltSuppressed(t) \/ NoStepLeft(t) \/ HoldForReview(t)
  BY <1>3, <1>5 DEF HaltSuppressed, NoStepLeft, HoldForReview, MoveAndReturn, ReturnOrRaise
<1>6. CASE Load(t) \/ Render(t) \/ Clear(t) \/ Send(t) \/ MarkSent(t)
  BY <1>3, <1>6 DEF Load, Render, Clear, Send, MarkSent
<1>7. CASE MakeReady(t)
  BY <1>3, <1>7 DEF MakeReady
<1> QED BY <1>4, <1>5, <1>6, <1>7 DEF SendProgress, SendFault

LEMMA EmailedEffect ==
  ASSUME SendSideOK, NEW t \in SendTasks, Live(t), Emailed(t)
  PROVE  /\ \A e \in Enrollments : e # task[t].enr => sent'[e] = sent[e]
         /\ \A k \in Steps : k # seen[t].step => sent'[task[t].enr][k] = sent[task[t].enr][k]
         /\ sent'[task[t].enr][seen[t].step] > 0
         /\ sent[task[t].enr][seen[t].step] = 0 => sent'[task[t].enr][seen[t].step] = 1
<1>1. task[t].enr \in Enrollments /\ seen[t].step \in Steps
  BY BusyTask DEF SendSideOK, Live
<1>2. \A n \in 0 .. CAP : Counted(n) > 0 /\ (n = 0 => Counted(n) = 1)
  BY DEF CAP, Counted
<1>3. /\ sent[task[t].enr] \in [Steps -> 0 .. CAP]
      /\ sent[task[t].enr][seen[t].step] \in 0 .. CAP
      /\ sent' = [sent EXCEPT ![task[t].enr] =
                    [@ EXCEPT ![seen[t].step] = Counted(sent[task[t].enr][seen[t].step])]]
  BY <1>1 DEF SendSideOK, SentOK, Emailed
<1>4. /\ sent'[task[t].enr] =
           [sent[task[t].enr] EXCEPT ![seen[t].step] = Counted(sent[task[t].enr][seen[t].step])]
      /\ \A e \in Enrollments : e # task[t].enr => sent'[e] = sent[e]
  BY <1>1, <1>3 DEF SendSideOK, SentOK
<1>5. /\ \A k \in Steps : k # seen[t].step => sent'[task[t].enr][k] = sent[task[t].enr][k]
      /\ sent'[task[t].enr][seen[t].step] = Counted(sent[task[t].enr][seen[t].step])
  BY <1>1, <1>3, <1>4
<1> QED BY <1>2, <1>3, <1>4, <1>5

LEMMA SentElsewhere ==
  ASSUME SendSideOK, "late_error" \notin Faults, NEW t \in SendTasks, SendProgress(t) \/ SendFault(t)
  PROVE  Elsewhere(t)
<1>1. SendEffect(t)
  BY SendEffects
<1>2. CASE Send(t) \/ SendUnrecorded(t)
  <2>1. Emailed(t) /\ unmarked \subseteq unmarked'
    BY <1>2 DEF Send, SendUnrecorded
  <2> QED BY <1>1, <2>1, SeenElsewhere, EmailedEffect DEF SendEffect, Elsewhere
<1>3. CASE UNCHANGED sent /\ unmarked \subseteq unmarked'
  BY <1>1, <1>3, SeenElsewhere DEF SendEffect, Elsewhere
<1>4. CASE ~Send(t) /\ ~SendUnrecorded(t)
  <2>1. UNCHANGED sent /\ unmarked \subseteq unmarked'
    BY <1>4 DEF SendProgress, SendFault, SkipStopped, Load, FailsOnName, HaltSuppressed, NoStepLeft,
       HoldForReview, Render, MakeReady, Clear, DispatchRefused, MarkSent, ScheduleFails, Advance,
       Complete, DeferNoMailbox, SendFails, SendError, SendCrash
  <2> QED BY <1>3, <2>1
<1> QED BY <1>2, <1>4

\* The kinds of step of a task on its own enrollment: it ends, with the row ended
\* too or as it was; it raises; it goes on, up to the provider and past it.
Ends(t) ==
  /\ task'[t].pc = "idle" /\ UNCHANGED sent
  /\ \/ row'[task[t].enr] = row[task[t].enr]
     \/ /\ row'[task[t].enr].state \in TERMINAL_STATES
        /\ row'[task[t].enr].step = row[task[t].enr].step

Raises(t) ==
  /\ task'[t].pc \in {"idle", "queued"}
  /\ At(t, "dispatched") => <<task[t].enr, seen[t].step>> \in unmarked'
  /\ UNCHANGED <<row, sent>>

Loads(t) ==
  /\ At(t, "queued") /\ task'[t].pc = "loaded"
  /\ seen'[t] = row[task[t].enr]
  /\ UNCHANGED <<row, sent>>

Renders(t) ==
  /\ At(t, "loaded") /\ task'[t].pc = IF seen[t].state = "READY" THEN "ready" ELSE "drafted"
  /\ UNCHANGED <<row, sent, seen>>

Readies(t) ==
  /\ At(t, "drafted") /\ task'[t].pc = "ready"
  /\ can_transition(seen[t].state, "READY")
  /\ row'[task[t].enr].step = row[task[t].enr].step /\ seen'[t] = row'[task[t].enr]
  /\ row'[task[t].enr].state = "READY"
  /\ UNCHANGED sent

Clears(t) == At(t, "ready") /\ task'[t].pc = "cleared" /\ UNCHANGED <<row, sent, seen>>

Sends(t) ==
  /\ At(t, "cleared") /\ Emailed(t) /\ UNCHANGED row
  /\ \/ task'[t].pc = "dispatched" /\ UNCHANGED seen
     \/ task'[t].pc \in {"idle", "queued"} /\ <<task[t].enr, seen[t].step>> \in unmarked'

Marks(t) ==
  /\ At(t, "dispatched") /\ task'[t].pc = "marked"
  /\ row'[task[t].enr].step = row[task[t].enr].step /\ seen'[t] = row'[task[t].enr]
  /\ row'[task[t].enr].state = "SENT"
  /\ UNCHANGED sent

Advances(t) ==
  /\ At(t, "marked") /\ task'[t].pc = "idle"
  /\ row'[task[t].enr].state = "WAITING"
  /\ row'[task[t].enr].step = seen[t].step + 1 /\ seen[t].step + 1 \in Steps
  /\ UNCHANGED sent

Own(t) ==
  \/ Ends(t) \/ Raises(t) \/ Loads(t) \/ Renders(t) \/ Readies(t)
  \/ Clears(t) \/ Sends(t) \/ Marks(t) \/ Advances(t)

LEMMA MovedRow ==
  ASSUME row \in [Enrollments -> Row], NEW e \in Enrollments, NEW loaded, NEW new_state
  PROVE  /\ Moved(e, loaded, new_state)[e].state = new_state
         /\ Moved(e, loaded, new_state)[e].step = row[e].step
BY DEF Moved, Row

LEMMA RaiseStep ==
  ASSUME TaskOK, NEW t \in SendTasks, Raise(t)
  PROVE  task'[t].pc \in {"idle", "queued"}
<1>1. CASE task[t].tries >= MAX_RETRIES
  BY <1>1 DEF TaskOK, Raise, Idle
<1>2. CASE ~(task[t].tries >= MAX_RETRIES)
  BY <1>2 DEF TaskOK, Raise
<1> QED BY <1>1, <1>2

LEMMA MoveAndReturnStep ==
  ASSUME SendSideOK, "late_error" \notin Faults,
         NEW t \in SendTasks, Live(t), ~At(t, "dispatched"), UNCHANGED sent,
         NEW loaded, NEW new_state \in TERMINAL_STATES, MoveAndReturn(t, loaded, new_state)
  PROVE  Own(t)
<1>1. task[t].enr \in Enrollments
  BY BusyTask DEF SendSideOK, Live
<1>2. CASE can_transition(loaded.state, new_state)
  BY <1>1, <1>2, MovedRow, ReturnEffect DEF MoveAndReturn, ReturnOrRaise, Own, Ends, SendSideOK, Idle
<1>3. CASE ~can_transition(loaded.state, new_state)
  BY <1>3, RaiseStep DEF MoveAndReturn, Own, Raises, SendSideOK
<1> QED BY <1>2, <1>3

LEMMA OwnStep ==
  ASSUME SendSideOK, "late_error" \notin Faults, NEW t \in SendTasks, SendProgress(t) \/ SendFault(t)
  PROVE  Own(t)
<1> USE DEF SendSideOK
<1>1. ASSUME Return(t), UNCHANGED <<row, sent>> PROVE Own(t)
  BY <1>1, ReturnEffect DEF Own, Ends, Idle
<1>2. ASSUME Raise(t), UNCHANGED <<row, sent>>, ~At(t, "dispatched") PROVE Own(t)
  BY <1>2, RaiseStep DEF Own, Raises
<1>3. CASE SkipStopped(t) \/ DeferNoMailbox(t) \/ SendCrash(t)
  BY <1>1, <1>3 DEF SkipStopped, DeferNoMailbox, SendCrash, storeVars
<1>4. CASE FailsOnName(t) \/ DispatchRefused(t) \/ SendFails(t) \/ ScheduleFails(t)
  BY <1>2, <1>4 DEF FailsOnName, DispatchRefused, SendFails, ScheduleFails, At, storeVars
<1>5. CASE HaltSuppressed(t) \/ NoStepLeft(t) \/ HoldForReview(t)
  BY <1>5, MoveAndReturnStep
     DEF HaltSuppressed, NoStepLeft, HoldForReview, HasStep, Passed, Checked, At, Live, TERMINAL_STATES
<1>6. CASE Load(t)
  BY <1>6, GotoEffect DEF Load, Own, Loads, TaskOK, storeVars
<1>7. CASE Render(t)
  BY <1>7, GotoEffect DEF Render, HasStep, Passed, Checked, Own, Renders, storeVars
<1>8. CASE MakeReady(t)
  <2>1. task[t].enr \in Enrollments
    BY <1>8, BusyTask DEF MakeReady, At
  <2>2. CASE can_transition(seen[t].state, "READY")
    BY <1>8, <2>1, <2>2, MovedRow, GotoEffect DEF MakeReady, Own, Readies, TaskOK
  <2>3. CASE ~can_transition(seen[t].state, "READY")
    BY <1>2, <1>8, <2>3 DEF MakeReady, At
  <2> QED BY <2>2, <2>3
<1>9. CASE Clear(t)
  BY <1>9, GotoEffect DEF Clear, Own, Clears, storeVars
<1>10. CASE Send(t)
  BY <1>10, GotoEffect DEF Send, Own, Sends, storeVars
<1>11. CASE SendUnrecorded(t)
  BY <1>11, RaiseStep DEF SendUnrecorded, Own, Sends, storeVars
<1>12. CASE MarkSent(t)
  <2>1. task[t].enr \in Enrollments
    BY <1>12, BusyTask DEF MarkSent, At
  <2> QED BY <1>12, <2>1, MovedRow, GotoEffect DEF MarkSent, Own, Marks, TaskOK
<1>13. CASE Advance(t)
  <2>1. task[t].enr \in Enrollments /\ seen[t].step \in Steps
    BY <1>13, BusyTask DEF Advance, At
  <2>2. seen[t].step + 1 \in Steps
    BY <1>13, <2>1, BusyTask, StoreAssumption DEF Advance, NextStepExists, Steps, At
  <2> QED BY <1>13, <2>1, <2>2, ReturnEffect DEF Advance, ReturnOrRaise, Own, Advances, Idle
<1>14. CASE Complete(t)
  <2>1. task[t].enr \in Enrollments
    BY <1>14, BusyTask DEF Complete, At
  <2> QED
    BY <1>14, <2>1, MovedRow, ReturnEffect DEF Complete, ReturnOrRaise, Own, Ends, Idle, TERMINAL_STATES
<1>15. CASE SendError(t)
  BY <1>15, RaiseStep DEF SendError, Own, Raises, storeVars
<1> QED
  BY <1>3, <1>4, <1>5, <1>6, <1>7, <1>8, <1>9, <1>10, <1>11, <1>12, <1>13, <1>14, <1>15
     DEF SendProgress, SendFault

-----------------------------------------------------------------------------
(* A send task's step keeps the order of the steps.                         *)

\* What a task at work may take for granted.
LEMMA AtWork ==
  ASSUME DispatchInv, NEW t \in SendTasks, Live(t)
  PROVE  /\ SendSideOK
         /\ task[t].enr \in Enrollments /\ seen[t].step \in Steps
         /\ row[task[t].enr].step \in Steps
         /\ row[task[t].enr].state \notin Startable
         /\ \A o \in SendTasks : o # t /\ Live(o) =>
              task[o].enr \in Enrollments /\ task[o].enr # task[t].enr
         /\ \A ev \in Evaluators : task[t].enr \notin batch[ev] /\ handing[ev] # task[t].enr
<1>1. SendSideOK
  BY DEF DispatchInv, TypeOK, StoreTypeOK, SendTypeOK, SendSideOK, TaskOK, SentOK
<1>2. /\ task[t].enr \in Enrollments /\ seen[t].step \in Steps
      /\ row[task[t].enr].step \in Steps
  BY <1>1, BusyTask DEF SendSideOK, Live, Row
<1>3. row[task[t].enr].state \notin Startable
  BY DEF DispatchInv, Held
<1>4. \A o \in SendTasks : o # t /\ Live(o) =>
        task[o].enr \in Enrollments /\ task[o].enr # task[t].enr
  BY <1>1, <1>2, BusyTask DEF DispatchInv, AtMostOneLiveTask, SendSideOK, Live
<1>5. \A ev \in Evaluators : task[t].enr \notin batch[ev] /\ handing[ev] # task[t].enr
  BY <1>2 DEF DispatchInv, ClaimedFresh, AtMostOneLiveTask
<1> QED BY <1>1, <1>2, <1>3, <1>4, <1>5

LEMMA SendKeepsOrder ==
  ASSUME DispatchInv, OrderInv, "late_error" \notin Faults,
         NEW t \in SendTasks, SendProgress(t) \/ SendFault(t)
  PROVE  OrderInv'
<1>1. SendSideOK
  BY DEF DispatchInv, TypeOK, StoreTypeOK, SendTypeOK, SendSideOK, TaskOK, SentOK
<1>2. SendEffect(t) /\ Elsewhere(t) /\ Own(t) /\ Live(t)
  BY <1>1, SendEffects, SentElsewhere, OwnStep DEF SendEffect
<1> PICK e \in Enrollments : e = task[t].enr
  BY <1>2, AtWork
<1> PICK k \in Steps : k = seen[t].step
  BY <1>2, AtWork
<1>3. /\ e = task[t].enr /\ k = seen[t].step /\ row[e].step \in Steps
      /\ \A o \in SendTasks : o # t /\ Live(o) => task[o].enr \in Enrollments /\ task[o].enr # e
      /\ Live(t)
  BY <1>2, AtWork
<1>4. InOrder(e) /\ OnStep(t)
  BY <1>3 DEF OrderInv
<1>5. ASSUME NEW f \in Enrollments, f # e PROVE InOrder(f)'
  BY <1>2, <1>5 DEF Elsewhere, OrderInv, InOrder, Earlier
<1>6. ASSUME NEW o \in SendTasks, o # t PROVE OnStep(o)'
  BY <1>2, <1>3, <1>6 DEF Elsewhere, OrderInv, OnStep, Live, At
<1>7. task'[t].pc # "idle" => task'[t].enr = e
  BY <1>2 DEF SendEffect
<1>8. InOrder(e)' /\ OnStep(t)'
  <2>1. CASE Ends(t)
    BY <1>3, <1>4, <2>1 DEF Ends, InOrder, Earlier, OnStep, Live, At
  <2>2. CASE Raises(t)
    BY <1>3, <1>4, <2>2 DEF Raises, InOrder, Earlier, OnStep, Live, At
  <2>3. CASE Loads(t)
    BY <1>3, <1>4, <1>7, <2>3 DEF Loads, InOrder, Earlier, OnStep, Live, At
  <2>4. CASE Renders(t)
    BY <1>3, <1>4, <1>7, <2>4 DEF Renders, InOrder, Earlier, OnStep, Live, At
  <2>5. CASE Readies(t)
    BY <1>3, <1>4, <1>7, <2>5 DEF Readies, InOrder, Earlier, OnStep, Live, At
  <2>6. CASE Clears(t)
    BY <1>3, <1>4, <1>7, <2>6 DEF Clears, InOrder, Earlier, OnStep, Live, At
  <2>7. CASE Sends(t)
    <3>1. /\ row[e].step = k
          /\ sent'[e][k] > 0 /\ \A j \in Steps : j # k => sent'[e][j] = sent[e][j]
          /\ row'[e] = row[e]
      BY <1>1, <1>3, <1>4, <2>7, EmailedEffect DEF Sends, OnStep, At
    <3>2. InOrder(e)'
      BY <1>3, <1>4, <3>1 DEF InOrder, Earlier
    <3>3. OnStep(t)'
      BY <1>7, <2>7, <3>1 DEF Sends, OnStep, Live, At
    <3> QED BY <3>2, <3>3
  <2>8. CASE Marks(t)
    BY <1>3, <1>4, <1>7, <2>8 DEF Marks, InOrder, Earlier, OnStep, Live, At
  <2>9. CASE Advances(t)
    <3>1. row[e].step = k /\ sent[e][k] > 0 /\ Earlier(e, k)
      BY <1>3, <1>4, <2>9 DEF Advances, InOrder, OnStep, At
    <3>2. \A j \in Steps : j < k + 1 => sent[e][j] > 0
      BY <1>3, <3>1 DEF Earlier, Steps
    <3> QED BY <1>3, <1>4, <2>9, <3>2 DEF Advances, InOrder, Earlier, OnStep, Live, At
  <2> QED BY <1>2, <2>1, <2>2, <2>3, <2>4, <2>5, <2>6, <2>7, <2>8, <2>9 DEF Own
<1> QED BY <1>5, <1>6, <1>8 DEF OrderInv

LEMMA SendKeepsOnce ==
  ASSUME DispatchInv, OrderInv, OnceInv, "late_error" \notin Faults,
         NEW t \in SendTasks, SendProgress(t) \/ SendFault(t), UNCHANGED schedulerVars
  PROVE  OnceInv'
<1>1. SendSideOK
  BY DEF DispatchInv, TypeOK, StoreTypeOK, SendTypeOK, SendSideOK, TaskOK, SentOK
<1>2. SendEffect(t) /\ Elsewhere(t) /\ Own(t) /\ Live(t)
  BY <1>1, SendEffects, SentElsewhere, OwnStep DEF SendEffect
<1> PICK e \in Enrollments : e = task[t].enr
  BY <1>2, AtWork
<1> PICK k \in Steps : k = seen[t].step
  BY <1>2, AtWork
<1>3. /\ e = task[t].enr /\ k = seen[t].step /\ row[e].step \in Steps /\ row[e].state \notin Startable
      /\ \A o \in SendTasks : o # t /\ Live(o) => task[o].enr \in Enrollments /\ task[o].enr # e
      /\ \A ev \in Evaluators : e \notin batch[ev] /\ handing[ev] # e
      /\ Live(t)
  BY <1>2, AtWork
<1>4. OnStep(t) /\ Once(e) /\ Attempt(t)
  BY <1>3 DEF OrderInv, OnceInv
<1>10. \A f \in Enrollments : \A j \in Steps : Repeatable(f, j) => Repeatable(f, j)'
  BY <1>2 DEF Elsewhere, Repeatable
<1>5. ASSUME NEW f \in Enrollments, f # e
      PROVE  Once(f)' /\ (Unsent(f) => Unsent(f)') /\ (Free(f) => Free(f)')
  <2>1. row[f].step \in Steps
    BY <1>1 DEF SendSideOK, Row
  <2>2. row'[f] = row[f] /\ sent'[f] = sent[f]
    BY <1>2, <1>3, <1>5 DEF Elsewhere
  <2>3. Once(f)' /\ (Unsent(f) => Unsent(f)')
    BY <1>10, <2>1, <2>2 DEF OnceInv, Once, Unsent
  <2> QED BY <1>10, <2>1, <2>2, <2>3 DEF Free
<1>6. ASSUME NEW o \in SendTasks, o # t PROVE Attempt(o)'
  <2>1. task'[o] = task[o] /\ seen'[o] = seen[o]
    BY <1>2, <1>6 DEF Elsewhere
  <2>2. Live(o) => /\ task[o].enr \in Enrollments /\ row'[task[o].enr] = row[task[o].enr]
                   /\ Free(task[o].enr) => Free(task[o].enr)'
    BY <1>2, <1>3, <1>5, <1>6 DEF Elsewhere
  <2>3. Attempt(o)
    BY DEF OnceInv
  <2> QED BY <2>1, <2>2, <2>3 DEF Attempt, Live, At, Free, Unsent, Repeatable
<1>7. ClaimsUnsent'
  BY <1>3, <1>5 DEF OnceInv, ClaimsUnsent, schedulerVars
<1>8. task'[t].pc # "idle" => task'[t].enr = e
  BY <1>2 DEF SendEffect
<1>9. Once(e)' /\ Attempt(t)'
  <2>10. (\A j \in Steps : Repeatable(e, j) => Repeatable(e, j)') /\ row[e].step \in Steps
    BY <1>3, <1>10
  <2>11. ASSUME UNCHANGED sent, row'[e].step = row[e].step PROVE Free(e) => Free(e)'
    BY <2>10, <2>11 DEF Free, Unsent
  <2>12. ASSUME UNCHANGED sent, row'[e].step = row[e].step,
                row'[e].state = row[e].state \/ row'[e].state \notin Startable
         PROVE  Once(e)'
    BY <1>3, <1>4, <2>10, <2>12 DEF Once
  <2>1. CASE Ends(t)
    <3>1. row'[e].state \notin Startable /\ row'[e].step = row[e].step /\ UNCHANGED sent
      BY <1>3, <2>1 DEF Ends, Startable, TERMINAL_STATES
    <3> QED BY <2>1, <2>12, <3>1 DEF Ends, Attempt, Live
  <2>2. CASE Raises(t)
    <3>1. At(t, "dispatched") => Free(e)'
      BY <1>3, <1>4, <2>2 DEF Raises, OnStep, Free, Repeatable, At
    <3> QED BY <1>3, <1>4, <1>8, <2>2, <2>11, <2>12, <3>1 DEF Raises, Attempt, Live, At
  <2>3. CASE Loads(t)
    BY <1>3, <1>4, <1>8, <2>3, <2>11, <2>12 DEF Loads, Attempt, Live, At
  <2>4. CASE Renders(t)
    <3>1. seen[t].state = "READY" => seen[t].state \notin After
      BY DEF After, TERMINAL_STATES
    <3> QED BY <1>3, <1>4, <1>8, <2>4, <2>11, <2>12, <3>1 DEF Renders, Attempt, Live, At
  <2>5. CASE Readies(t)
    <3>1. seen[t].state \notin After
      BY <2>5 DEF Readies, After, TERMINAL_STATES, can_transition, VALID_TRANSITIONS
    <3>2. Free(e)
      BY <1>3, <1>4, <2>5, <3>1 DEF Readies, Attempt
    <3>3. row'[e].state = "READY" /\ "READY" \notin Startable /\ row'[e].step = row[e].step
          /\ UNCHANGED sent
      BY <1>3, <2>5 DEF Readies, Startable
    <3> QED BY <1>3, <1>8, <2>5, <2>11, <2>12, <3>2, <3>3 DEF Readies, Attempt, Live, At
  <2>6. CASE Clears(t)
    BY <1>3, <1>4, <1>8, <2>6, <2>11, <2>12 DEF Clears, Attempt, Live, At
  <2>7. CASE Sends(t)
    <3>1. row[e].step = k /\ (sent[e][k] = 0 \/ Repeatable(e, k))
      BY <1>3, <1>4, <2>7 DEF Sends, OnStep, Attempt, Unsent, Free, Repeatable, At
    <3>2. /\ sent'[e][k] = 1 \/ Repeatable(e, k)'
          /\ sent'[e][k] > 0 /\ \A j \in Steps : j # k => sent'[e][j] = sent[e][j]
      BY <1>1, <1>3, <2>7, <2>10, <3>1, EmailedEffect DEF Sends
    <3>3. \A j \in Steps : sent'[e][j] <= 1 \/ Repeatable(e, j)'
      BY <1>4, <2>10, <3>2 DEF Once
    <3>4. \A j \in Steps : j > row'[e].step => sent'[e][j] = 0
      BY <1>3, <1>4, <2>7, <3>1, <3>2 DEF Sends, Once, Steps
    <3>5. Once(e)'
      BY <1>3, <2>7, <3>3, <3>4 DEF Sends, Once
    <3>6. task'[t].pc = "dispatched" \/ Free(e)'
      BY <1>3, <2>7, <3>1 DEF Sends, Free, Repeatable
    <3>7. Attempt(t)'
      BY <1>3, <1>8, <2>7, <3>6 DEF Sends, Attempt, Live, At
    <3> QED BY <3>5, <3>7
  <2>8. CASE Marks(t)
    <3>1. row'[e].state = "SENT" /\ "SENT" \in After /\ "SENT" \notin Startable
          /\ row'[e].step = row[e].step /\ UNCHANGED sent
      BY <1>3, <2>8 DEF Marks, After, Startable
    <3> QED BY <1>3, <1>8, <2>8, <2>12, <3>1 DEF Marks, Attempt, Live, At
  <2>9. CASE Advances(t)
    <3>1. row[e].step = k /\ \A j \in Steps : j > k => sent[e][j] = 0
      BY <1>3, <1>4, <2>9 DEF Advances, OnStep, Once, At
    <3>2. \A j \in Steps : j >= k + 1 => sent[e][j] = 0
      BY <1>3, <3>1 DEF Steps
    <3>3. Once(e)'
      BY <1>3, <1>4, <2>9, <2>10, <3>2 DEF Advances, Once, Unsent, Steps
    <3> QED BY <2>9, <3>3 DEF Advances, Attempt, Live
  <2> QED BY <1>2, <2>1, <2>2, <2>3, <2>4, <2>5, <2>6, <2>7, <2>8, <2>9 DEF Own
<1> QED BY <1>5, <1>6, <1>7, <1>9 DEF OnceInv

-----------------------------------------------------------------------------
(* Evaluators, deliveries and requests keep it too.                         *)

LEMMA SchedulerKeepsSteps ==
  ASSUME DispatchInv, OrderInv, NEW ev \in Evaluators, SchedulerProgress(ev) \/ SchedulerFault(ev)
  PROVE  OrderInv' /\ (OnceInv => OnceInv')
<1>1. /\ row \in [Enrollments -> Row]
      /\ batch \in [Evaluators -> SUBSET Enrollments]
      /\ handing \in [Evaluators -> Enrollments \cup {NoEnrollment}]
      /\ DOMAIN task = SendTasks
  BY DEF DispatchInv, TypeOK, StoreTypeOK, SchedulerTypeOK, SendTypeOK
<1>2. CASE Evaluate(ev)
  <2>1. PICK claimed \in SUBSET Enrollments :
          /\ batch' = [batch EXCEPT ![ev] = claimed]
          /\ \A e \in claimed : row[e].state \in {"QUEUED", "WAITING"}
    BY <1>2, ClaimEffect
  <2>2. UNCHANGED <<row, task, seen, sent, unmarked, handing>>
    BY <1>2 DEF Evaluate, sendVars
  <2>3. OnceInv => ClaimsUnsent'
    BY <1>1, <2>1, <2>2 DEF OnceInv, ClaimsUnsent, Once, Unsent, Startable
  <2> QED BY <2>2, <2>3
          DEF OrderInv, InOrder, Earlier, OnStep, OnceInv, Once, Unsent, Attempt, Free, Repeatable, Live, At
<1>3. ASSUME NEW e \in Enrollments, Release(ev, e) PROVE OrderInv' /\ (OnceInv => OnceInv')
  <2>1. /\ e \in batch[ev] /\ batch' = [batch EXCEPT ![ev] = @ \ {e}]
        /\ handing' = [handing EXCEPT ![ev] = e]
        /\ row' = [row EXCEPT ![e].state = "READY"]
        /\ UNCHANGED <<task, seen, sent, unmarked>>
    BY <1>3 DEF Release, sendVars
  <2>2. \A t \in SendTasks : Live(t) => task[t].enr # e
    BY <2>1 DEF DispatchInv, ClaimedFresh
  <2>3. /\ \A f \in Enrollments : row'[f].step = row[f].step /\ (f # e => row'[f] = row[f])
        /\ row'[e].state \notin Startable
    BY <1>1, <2>1 DEF Row, Startable
  <2>4. \A t \in SendTasks : Live(t) => task[t].enr \in Enrollments
    BY DEF DispatchInv, TypeOK, SendTypeOK, Live
  <2>5. OrderInv'
    BY <2>1, <2>3, <2>4 DEF OrderInv, InOrder, Earlier, OnStep, Live, At
  <2>6. ASSUME OnceInv PROVE OnceInv'
    <3>1. \A f \in Enrollments : Unsent(f)' <=> Unsent(f)
      BY <2>1, <2>3 DEF Unsent
    <3>2. ClaimsUnsent'
      BY <1>1, <2>1, <2>6, <3>1 DEF OnceInv, ClaimsUnsent
    <3>3. \A t \in SendTasks : Attempt(t)'
      BY <2>1, <2>2, <2>3, <2>4, <2>6 DEF OnceInv, Attempt, Live, Free, Unsent, Repeatable, At
    <3>4. \A f \in Enrollments : Once(f)'
      BY <2>1, <2>3, <2>6, <3>1 DEF OnceInv, Once, Repeatable
    <3> QED BY <3>2, <3>3, <3>4 DEF OnceInv
  <2> QED BY <2>5, <2>6
<1>4. CASE HandOver(ev)
  <2>1. PICK t \in SendTasks : Delay(t, handing[ev])
    BY <1>4 DEF HandOver
  <2>2. /\ handing[ev] \in Enrollments
        /\ task' = [task EXCEPT ![t] = [pc |-> "queued", enr |-> handing[ev], tries |-> 0]]
        /\ handing' = [handing EXCEPT ![ev] = NoEnrollment]
        /\ UNCHANGED <<row, seen, sent, unmarked, batch>>
    BY <1>1, <1>4, <2>1 DEF HandOver, Delay, storeVars
  <2>3. /\ task'[t].pc = "queued" /\ task'[t].enr = handing[ev]
        /\ \A o \in SendTasks : o # t => task'[o] = task[o]
    BY <1>1, <2>2
  <2>4. OrderInv'
    BY <2>2, <2>3 DEF OrderInv, InOrder, Earlier, OnStep, Live, At
  <2>5. ASSUME OnceInv PROVE OnceInv'
    <3>1. \A f \in Enrollments : Unsent(f)' <=> Unsent(f)
      BY <2>2 DEF Unsent
    <3>2. ClaimsUnsent'
      BY <1>1, <2>2, <2>5, <3>1, NoEnrollmentApart DEF OnceInv, ClaimsUnsent
    <3>3. Unsent(handing[ev])
      BY <2>2, <2>5 DEF OnceInv, ClaimsUnsent
    <3>4. \A o \in SendTasks : Attempt(o)'
      BY <2>2, <2>3, <2>5, <3>3 DEF OnceInv, Attempt, Unsent, Free, Repeatable, Live, At
    <3> QED BY <2>2, <2>5, <3>1, <3>2, <3>4 DEF OnceInv, Once, Repeatable
  <2> QED BY <2>4, <2>5
<1>5. CASE HandOverFails(ev) \/ EvaluatorCrash(ev)
  <2>1. /\ UNCHANGED <<row, task, seen, sent, unmarked>>
        /\ \A a \in Evaluators : batch'[a] \subseteq batch[a]
        /\ \A a \in Evaluators : handing'[a] \in {handing[a], NoEnrollment}
    BY <1>1, <1>5 DEF HandOverFails, EvaluatorCrash, storeVars, sendVars
  <2>2. OnceInv => ClaimsUnsent'
    BY <2>1, NoEnrollmentApart DEF OnceInv, ClaimsUnsent, Unsent
  <2> QED BY <2>1, <2>2
          DEF OrderInv, InOrder, Earlier, OnStep, OnceInv, Once, Unsent, Attempt, Free, Repeatable, Live, At
<1> QED BY <1>2, <1>3, <1>4, <1>5 DEF SchedulerProgress, SchedulerFault

\* From outside, a row keeps its step number, and its state too unless it is
\* enrolled, or moved to where no attempt starts from.
Drifts ==
  \A e \in Enrollments :
    /\ row'[e].step = row[e].step
    /\ \/ row'[e].state = row[e].state
       \/ row'[e].state \in After
       \/ row[e].state \in Startable /\ row'[e].state \in Startable

LEMMA DriftKeepsSteps ==
  ASSUME DispatchInv, OrderInv, Drifts, UNCHANGED <<task, seen, sent, unmarked, batch, handing>>
  PROVE  OrderInv' /\ (OnceInv => OnceInv')
<1>1. \A t \in SendTasks : Live(t) => task[t].enr \in Enrollments /\ row[task[t].enr].state \notin Startable
  BY DEF DispatchInv, TypeOK, SendTypeOK, Held, Live
<1>2. OrderInv'
  BY <1>1 DEF OrderInv, InOrder, Earlier, OnStep, Live, At, Drifts
<1>3. ASSUME OnceInv PROVE OnceInv'
  <2>1. \A e \in Enrollments : Unsent(e)' <=> Unsent(e)
    BY DEF Unsent, Drifts
  <2>2. After \cap Startable = {}
    BY DEF After, Startable, TERMINAL_STATES
  <2>3. \A e \in Enrollments : Once(e)'
    BY <1>3, <2>1, <2>2 DEF OnceInv, Once, Repeatable, Drifts
  <2>4. \A t \in SendTasks : Attempt(t)'
    BY <1>1, <1>3, <2>1 DEF OnceInv, Attempt, Live, Free, Unsent, Repeatable, At, Drifts
  <2>5. ClaimsUnsent'
    BY <1>3, <2>1 DEF OnceInv, ClaimsUnsent
  <2> QED BY <2>3, <2>4, <2>5 DEF OnceInv
<1> QED BY <1>2, <1>3

LEMMA InboundDrifts ==
  ASSUME InboundOK, NEW d \in Deliveries, InboundProgress(d) \/ InboundFault(d)
  PROVE  Drifts
<1>1. ASSUME NEW e \in Enrollments, Halt(d, e) PROVE Drifts
  <2>1. inbound[d].target \in After
    BY DEF InboundOK, InboundTypeOK, After, TERMINAL_STATES
  <2> QED BY <1>1, <2>1, MovedState, MovedRow DEF Halt, Drifts, InboundOK, StoreTypeOK
<1>2. ASSUME UNCHANGED row PROVE Drifts
  BY <1>2 DEF Drifts
<1> QED
  BY <1>1, <1>2 DEF InboundProgress, InboundFault, Deduplicate, Persist, IgnoreAutoReply, Classify,
     HaltFails, Fail, Finish, BeginReply, Reply, ReplyFails, InboundCrash, storeVars

LEMMA ApiDrifts ==
  ASSUME StoreTypeOK, ApiNext
  PROVE  Drifts
<1> USE DEF StoreTypeOK, Drifts
<1>1. ASSUME NEW e \in Enrollments, enroll_leads(e) \/ TimePasses(e) PROVE Drifts
  BY <1>1 DEF enroll_leads, TimePasses, NotEnrolled, Enrolled, Row, Startable
<1>2. ASSUME NEW c \in Campaigns, launch_campaign(c) PROVE Drifts
  BY <1>2 DEF launch_campaign, Row
<1>3. ASSUME NEW l \in Leads, book_meeting(l) PROVE Drifts
  BY <1>3 DEF book_meeting, Row, After, TERMINAL_STATES
<1> QED
  BY <1>1, <1>2, <1>3 DEF ApiNext, pause_campaign, resume_campaign, update_campaign, set_status,
     add_to_suppression_list

-----------------------------------------------------------------------------

LEMMA StepInvHolds == ExclusiveClaims /\ Spec => []StepInv
<1> SUFFICES ASSUME ExclusiveClaims PROVE Spec => []StepInv
  OBVIOUS
<1>1. Init => StepInv
  <2> SUFFICES ASSUME Init PROVE StepInv
    OBVIOUS
  <2>1. \A e \in Enrollments : row[e].step = 1 /\ (\A k \in Steps : sent[e][k] = 0)
    BY DEF Init, StoreInit, SendInit, NotEnrolled
  <2>2. \A t \in SendTasks : ~Live(t)
    BY DEF Init, SendInit, Idle, Live
  <2>3. 1 \in Steps
    BY StoreAssumption DEF Steps
  <2>4. OrderInv
    BY <2>1, <2>2 DEF OrderInv, InOrder, Earlier, OnStep, Steps
  <2>5. OnceInv
    BY <2>1, <2>2, <2>3, NoEnrollmentApart
       DEF Init, SchedulerInit, OnceInv, Once, Unsent, Attempt, Free, Repeatable, ClaimsUnsent
  <2> QED BY <2>4, <2>5 DEF StepInv
<1>2. DispatchInv /\ StepInv /\ [Next]_vars => StepInv'
  <2> SUFFICES ASSUME DispatchInv, StepInv, [Next]_vars PROVE StepInv'
    OBVIOUS
  <2>1. OrderInv /\ OnceInv
    BY DEF StepInv
  <2>2. ASSUME NEW t \in SendTasks, SendProgress(t) \/ SendFault(t),
               UNCHANGED <<schedulerVars, inboundVars>>
        PROVE  StepInv'
    BY <2>1, <2>2, SendKeepsOrder, SendKeepsOnce DEF StepInv, ExclusiveClaims
  <2>3. ASSUME NEW ev \in Evaluators, SchedulerProgress(ev) \/ SchedulerFault(ev)
        PROVE  StepInv'
    BY <2>1, <2>3, SchedulerKeepsSteps DEF StepInv
  <2>4. ASSUME Drifts, UNCHANGED <<task, seen, sent, unmarked, batch, handing>> PROVE StepInv'
    BY <2>1, <2>4, DriftKeepsSteps DEF StepInv
  <2>5. ASSUME NEW d \in Deliveries, InboundProgress(d) \/ InboundFault(d),
               UNCHANGED <<task, seen, sent, unmarked, schedulerVars>>
        PROVE  StepInv'
    BY <2>4, <2>5, InboundDrifts DEF DispatchInv, TypeOK, InboundOK, schedulerVars
  <2>6. CASE ApiNext /\ UNCHANGED <<sendVars, schedulerVars, inboundVars>>
    BY <2>4, <2>6, ApiDrifts DEF DispatchInv, TypeOK, sendVars, schedulerVars
  <2>7. CASE UNCHANGED vars
    BY <2>4, <2>7 DEF Drifts, vars, storeVars, sendVars, schedulerVars
  <2> QED BY <2>2, <2>3, <2>5, <2>6, <2>7 DEF Next, SendNext, SchedulerNext, InboundNext
<1> QED BY <1>1, <1>2, DispatchInvHolds, PTL DEF Spec

\* For exclusive claims, whatever fails or crashes and however the provider's answers
\* are lost, a step is emailed or passed over in the row only when every step before
\* it has been accepted by the provider.
THEOREM StepsInOrder == ExclusiveClaims /\ Spec => []NoStepSkipped
<1>1. TypeOK /\ StepInv => NoStepSkipped
  <2> SUFFICES ASSUME TypeOK, StepInv, NEW e \in Enrollments, NEW k \in Steps,
                      row[e].step > k \/ \E j \in Steps : j > k /\ sent[e][j] > 0
               PROVE  sent[e][k] > 0
    BY DEF NoStepSkipped
  <2>1. row[e].step \in Steps
    BY DEF TypeOK, StoreTypeOK, Row
  <2>2. InOrder(e)
    BY DEF StepInv, OrderInv
  <2> QED BY <2>1, <2>2 DEF InOrder, Earlier, Steps
<1> QED BY <1>1, TypeCorrect, StepInvHolds, PTL

\* For exclusive claims, a step of a sequence is emailed twice only behind an attempt
\* whose exception came between the provider's acceptance and the commit of SENT,
\* whatever is retried, crashes or is paused, booked, answered and launched again.
THEOREM StepsOnce == ExclusiveClaims /\ Spec => []TwiceOnlyUnmarked
<1>1. TypeOK /\ StepInv => TwiceOnlyUnmarked
  <2> SUFFICES ASSUME TypeOK, StepInv, NEW e \in Enrollments, NEW k \in Steps, sent[e][k] > 1
               PROVE  <<e, k>> \in unmarked
    BY DEF TwiceOnlyUnmarked
  <2>1. sent[e][k] \in Nat
    BY DEF TypeOK, SendTypeOK, CAP
  <2> QED BY <2>1 DEF StepInv, OnceInv, Once, Repeatable
<1> QED BY <1>1, TypeCorrect, StepInvHolds, PTL

\* For exclusive claims, no crash, retry or request turns an enrollment's step number
\* back: the copy a task increments is never older than the row.
THEOREM StepsGrow == ExclusiveClaims /\ Spec => StepNeverGoesBack
<1> DEFINE Grown == \A e \in Enrollments : row'[e].step >= row[e].step
<1> SUFFICES ASSUME ExclusiveClaims PROVE Spec => StepNeverGoesBack
  OBVIOUS
<1>1. DispatchInv /\ StepInv /\ [Next]_vars => [Grown]_row
  <2> SUFFICES ASSUME DispatchInv, StepInv, [Next]_vars PROVE Grown
    OBVIOUS
  <2>1. \A e \in Enrollments : row[e].step \in Nat
    BY DEF DispatchInv, TypeOK, StoreTypeOK, Row, Steps
  <2>2. ASSUME NEW t \in SendTasks, SendProgress(t) \/ SendFault(t) PROVE Grown
    <3>1. SendSideOK
      BY DEF DispatchInv, TypeOK, StoreTypeOK, SendTypeOK, SendSideOK, TaskOK, SentOK
    <3>2. Own(t) /\ Elsewhere(t) /\ Live(t)
      BY <2>2, <3>1, SendEffects, SentElsewhere, OwnStep DEF SendEffect, ExclusiveClaims
    <3>3. task[t].enr \in Enrollments
      BY <3>2 DEF DispatchInv, TypeOK, SendTypeOK, Live
    <3>4. Advances(t) => row[task[t].enr].step = seen[t].step
      BY <3>2 DEF StepInv, OrderInv, OnStep, Advances, At
    <3> QED BY <2>1, <3>2, <3>3, <3>4
            DEF Own, Elsewhere, Ends, Raises, Loads, Renders, Readies, Clears, Sends, Marks, Advances
  <2>3. ASSUME NEW ev \in Evaluators, SchedulerProgress(ev) \/ SchedulerFault(ev) PROVE Grown
    BY <2>1, <2>3 DEF DispatchInv, TypeOK, StoreTypeOK, Row, SchedulerProgress, SchedulerFault,
       Evaluate, Release, HandOver, HandOverFails, EvaluatorCrash, storeVars
  <2>4. Drifts => Grown
    BY <2>1 DEF Drifts
  <2>5. ASSUME NEW d \in Deliveries, InboundProgress(d) \/ InboundFault(d),
               UNCHANGED <<task, seen, sent, unmarked, schedulerVars>>
        PROVE  Grown
    BY <2>4, <2>5, InboundDrifts DEF DispatchInv, TypeOK, InboundOK, schedulerVars
  <2>6. CASE ApiNext
    BY <2>4, <2>6, ApiDrifts DEF DispatchInv, TypeOK
  <2>7. CASE UNCHANGED vars
    BY <2>1, <2>7 DEF vars, storeVars
  <2> QED BY <2>2, <2>3, <2>5, <2>6, <2>7 DEF Next, SendNext, SchedulerNext, InboundNext
<1> QED BY <1>1, DispatchInvHolds, StepInvHolds, PTL DEF Spec, StepNeverGoesBack

-----------------------------------------------------------------------------
(***************************************************************************)
(* What a halt still lets through.  A recorded opt-out is a complete one,   *)
(* however many deliveries, commits that fail half way and crashes it took. *)
(* A suppressed lead gets one late email at most, from a campaign or as an  *)
(* automatic reply: the lead's send lock carries the argument, for whoever  *)
(* is between the suppression check and the provider's answer holds it      *)
(* alone, and found nothing late when it took it.  And an ended enrollment  *)
(* changes by an older copy only.                                           *)
(***************************************************************************)

\* An opt-out whose transaction is open will insert the entry or has found one.
EntryAssured ==
  \A d \in Deliveries : inbound[d].open /\ IsOptOut(d) =>
    inbound[d].adds \/ Sender(d) \in suppressed

OptOutInv == EntryAssured /\ OptOutRecordedWhole

\* Nobody in the engine removes an entry or a flag.
Grows == suppressed \subseteq suppressed' /\ optOut \subseteq optOut'

LEMMA GrowthKeepsInv ==
  ASSUME OptOutInv, Grows, UNCHANGED <<inbound, recorded>>
  PROVE  OptOutInv'
BY DEF OptOutInv, EntryAssured, OptOutRecordedWhole, Grows, IsOptOut, Sender

LEMMA CommitMessageKeepsWhole ==
  ASSUME InboundOK, OptOutInv, NEW d \in Deliveries, CommitMessage(d)
  PROVE  Grows /\ OptOutRecordedWhole'
<1>1. CASE ~inbound[d].open
  BY <1>1 DEF CommitMessage, Grows, OptOutInv, OptOutRecordedWhole
<1>2. CASE inbound[d].open
  <2>1. /\ recorded' = [recorded EXCEPT ![messageOf[d]] = @ + 1]
        /\ suppressed' = IF inbound[d].adds THEN suppressed \cup {Sender(d)} ELSE suppressed
        /\ optOut' = IF IsOptOut(d) THEN optOut \cup {Sender(d)} ELSE optOut
    BY <1>2 DEF CommitMessage
  <2>2. Grows
    BY <2>1 DEF Grows
  <2>3. ASSUME NEW m \in OptOutMessages, recorded'[m] > 0
        PROVE  senderOf[m] \in suppressed' \cap optOut'
    <3>1. CASE m = messageOf[d]
      BY <1>2, <2>1, <3>1 DEF OptOutInv, EntryAssured, IsOptOut, Sender
    <3>2. CASE m # messageOf[d]
      <4>1. recorded[m] > 0
        BY <2>1, <2>3, <3>2, InboundAssumption DEF InboundOK, InboundTypeOK
      <4> QED BY <2>2, <4>1 DEF Grows, OptOutInv, OptOutRecordedWhole
    <3> QED BY <3>1, <3>2
  <2> QED BY <2>2, <2>3 DEF OptOutRecordedWhole
<1> QED BY <1>1, <1>2

LEMMA InboundKeepsOptOut ==
  ASSUME InboundOK, OptOutInv, NEW d \in Deliveries, InboundProgress(d) \/ InboundFault(d)
  PROVE  OptOutInv'
<1>1. inbound \in [Deliveries ->
        [pc : {"queued", "checked", "classifying", "halting", "replying", "done", "failed"},
         open : BOOLEAN, adds : BOOLEAN, todo : SUBSET Enrollments,
         target : {"UNSUBSCRIBED", "COMPLETED", "REPLIED"}]]
  BY DEF InboundOK, InboundTypeOK
<1>2. ASSUME Grows, \A o \in Deliveries : o # d => inbound'[o] = inbound[o],
             ~inbound'[d].open \/ (inbound'[d].open = inbound[d].open /\ inbound'[d].adds = inbound[d].adds)
      PROVE  EntryAssured'
  <2>1. SUFFICES ASSUME NEW o \in Deliveries, inbound'[o].open, IsOptOut(o)
                 PROVE  inbound'[o].adds \/ Sender(o) \in suppressed'
    BY DEF EntryAssured, IsOptOut, Sender
  <2> QED BY <1>2, <2>1 DEF OptOutInv, EntryAssured, Grows
<1>3. ASSUME NEW pc, End(d, pc)
      PROVE  /\ \A o \in Deliveries : o # d => inbound'[o] = inbound[o]
             /\ ~inbound'[d].open
  BY <1>1, <1>3 DEF End
<1>4. ASSUME UNCHANGED storeVars PROVE Grows
  BY <1>4 DEF storeVars, Grows
<1>5. ASSUME UNCHANGED <<storeVars, recorded>> PROVE OptOutRecordedWhole'
  BY <1>5 DEF OptOutInv, OptOutRecordedWhole, storeVars
<1>6. CASE Deduplicate(d)
  <2>1. CASE inbound' = [inbound EXCEPT ![d].pc = "checked"]
    BY <1>1, <1>2, <1>4, <1>5, <1>6, <2>1 DEF Deduplicate, OptOutInv
  <2>2. CASE End(d, "done") \/ End(d, "failed")
    BY <1>2, <1>3, <1>4, <1>5, <1>6, <2>2 DEF Deduplicate, OptOutInv
  <2> QED BY <1>6, <2>1, <2>2 DEF Deduplicate
<1>7. CASE Persist(d)
  <2>1. UNCHANGED <<storeVars, recorded>>
    BY <1>7 DEF Persist
  <2>2. CASE IsOptOut(d)
    <3>1. /\ \A o \in Deliveries : o # d => inbound'[o] = inbound[o]
          /\ inbound'[d].adds = (Sender(d) \notin suppressed)
      BY <1>1, <1>7, <2>2 DEF Persist
    <3> QED BY <1>5, <2>1, <3>1 DEF OptOutInv, EntryAssured, IsOptOut, Sender, storeVars
  <2>3. CASE ~IsOptOut(d)
    <3>1. \A o \in Deliveries : o # d => inbound'[o] = inbound[o]
      BY <1>1, <1>7, <2>3 DEF Persist
    <3> QED BY <1>5, <2>1, <2>3, <3>1 DEF OptOutInv, EntryAssured, IsOptOut, Sender, storeVars
  <2> QED BY <2>2, <2>3
<1>8. CASE IgnoreAutoReply(d) \/ Finish(d)
  BY <1>2, <1>3, <1>8, CommitMessageKeepsWhole DEF IgnoreAutoReply, Finish, Commit, OptOutInv
<1>9. CASE Reply(d) \/ ReplyFails(d)
  BY <1>2, <1>3, <1>9, CommitMessageKeepsWhole DEF Reply, ReplyFails, OptOutInv
<1>10. ASSUME NEW target, Classify(d, target) PROVE OptOutInv'
  <2>1. /\ \A o \in Deliveries : o # d => inbound'[o] = inbound[o]
        /\ inbound'[d].open = inbound[d].open /\ inbound'[d].adds = inbound[d].adds
    BY <1>1, <1>10 DEF Classify
  <2> QED BY <1>2, <1>4, <1>5, <1>10, <2>1 DEF Classify, OptOutInv
<1>11. ASSUME NEW e \in Enrollments, Halt(d, e) PROVE OptOutInv'
  <2>1. /\ \A o \in Deliveries : o # d => inbound'[o] = inbound[o]
        /\ ~inbound'[d].open
    BY <1>1, <1>11 DEF Halt
  <2> QED BY <1>2, <1>11, <2>1, CommitMessageKeepsWhole DEF Halt, Commit, OptOutInv
<1>12. CASE HaltFails(d) \/ InboundCrash(d)
  BY <1>2, <1>3, <1>4, <1>5, <1>12 DEF HaltFails, InboundCrash, Fail, OptOutInv
<1>13. CASE BeginReply(d)
  <2>1. /\ \A o \in Deliveries : o # d => inbound'[o] = inbound[o]
        /\ inbound'[d].open = inbound[d].open /\ inbound'[d].adds = inbound[d].adds
    BY <1>1, <1>13 DEF BeginReply
  <2> QED BY <1>2, <1>4, <1>5, <1>13, <2>1 DEF BeginReply, OptOutInv
<1> QED
  BY <1>6, <1>7, <1>8, <1>9, <1>10, <1>11, <1>12, <1>13 DEF InboundProgress, InboundFault

\* Once a message that the opt-out detector recognises is on record, which is
\* what makes its later deliveries be skipped, its sender is in the suppression
\* list and flagged.
THEOREM OptOutIsWhole == Spec => []OptOutRecordedWhole
<1>1. Init => OptOutInv
  BY InboundAssumption DEF Init, InboundInit, OptOutInv, EntryAssured, OptOutRecordedWhole
<1>2. TypeOK /\ OptOutInv /\ [Next]_vars => OptOutInv'
  <2> SUFFICES ASSUME TypeOK, OptOutInv, [Next]_vars PROVE OptOutInv'
    OBVIOUS
  <2>1. ASSUME NEW t \in SendTasks, SendProgress(t) \/ SendFault(t),
               UNCHANGED <<schedulerVars, inboundVars>>
        PROVE  OptOutInv'
    <3>1. SendSideOK
      BY DEF TypeOK, StoreTypeOK, SendTypeOK, SendSideOK, TaskOK, SentOK
    <3> QED BY <2>1, <3>1, SendKeepsTypes, GrowthKeepsInv DEF Grows, inboundVars
  <2>2. CASE SchedulerNext /\ UNCHANGED inboundVars
    <3>1. UNCHANGED <<suppressed, optOut>>
      BY <2>2 DEF SchedulerNext, SchedulerProgress, SchedulerFault, Evaluate, Release, HandOver,
                  HandOverFails, EvaluatorCrash, storeVars
    <3> QED BY <2>2, <3>1, GrowthKeepsInv DEF Grows, inboundVars
  <2>3. CASE InboundNext
    BY <2>3, InboundKeepsOptOut DEF InboundNext, InboundOK, TypeOK
  <2>4. CASE ApiNext /\ UNCHANGED <<sendVars, schedulerVars, inboundVars>>
    <3>1. Grows
      BY <2>4 DEF ApiNext, enroll_leads, TimePasses, launch_campaign, pause_campaign,
                  resume_campaign, update_campaign, set_status, book_meeting,
                  add_to_suppression_list, Grows
    <3> QED BY <2>4, <3>1, GrowthKeepsInv DEF inboundVars
  <2>5. CASE UNCHANGED vars
    BY <2>5, GrowthKeepsInv DEF Grows, vars, storeVars, inboundVars
  <2> QED BY <2>1, <2>2, <2>3, <2>4, <2>5 DEF Next, SendNext
<1>3. OptOutInv => OptOutRecordedWhole
  BY DEF OptOutInv
<1> QED BY <1>1, <1>2, <1>3, TypeCorrect, PTL DEF Spec

-----------------------------------------------------------------------------
(* The late email.                                                           *)

\* A send task or a delivery that passed dispatch's checks has its lead's lock to
\* itself until the provider has answered.
LockHeldAlone ==
  /\ \A t \in SendTasks : At(t, "cleared") => Lead(t) \in sending
  /\ \A d \in Deliveries : InAt(d, "replying") => Sender(d) \in sending
  /\ \A t, o \in SendTasks : At(t, "cleared") /\ At(o, "cleared") /\ Lead(t) = Lead(o) => t = o
  /\ \A d, o \in Deliveries : InAt(d, "replying") /\ InAt(o, "replying") /\ Sender(d) = Sender(o) => d = o
  /\ \A t \in SendTasks, d \in Deliveries : At(t, "cleared") /\ InAt(d, "replying") => Lead(t) # Sender(d)

\* A late email was answered for, and its lead is suppressed: nobody is let in again.
LateIsOver ==
  \A l \in Leads : late[l] > 0 => is_email_suppressed(l) /\ l \notin sending

LateInv == LockHeldAlone /\ LateIsOver /\ AtMostOneLateEmail

-----------------------------------------------------------------------------
(* The four things a step can do to the flights.                            *)

\* No flight begins.
NoTakeOff ==
  /\ \A t \in SendTasks : At(t, "cleared")' => At(t, "cleared") /\ task'[t].enr = task[t].enr
  /\ \A d \in Deliveries : InAt(d, "replying")' => InAt(d, "replying")

LEMMA NothingSent ==
  ASSUME LateInv, Grows, NoTakeOff, UNCHANGED <<sending, late>>
  PROVE  LateInv'
<1>1. \A t \in SendTasks : At(t, "cleared")' => At(t, "cleared") /\ Lead(t)' = Lead(t)
  BY DEF NoTakeOff, Lead
<1>2. LockHeldAlone'
  BY <1>1 DEF LateInv, LockHeldAlone, NoTakeOff, Sender
<1>3. LateIsOver' /\ AtMostOneLateEmail'
  BY DEF LateInv, LateIsOver, AtMostOneLateEmail, Grows, is_email_suppressed
<1> QED BY <1>2, <1>3 DEF LateInv

\* A flight ends with the lock's release: refused, or accepted, late or not.
LEMMA Landed ==
  ASSUME DispatchTypeOK, LateInv, Grows, NoTakeOff, NEW l \in Leads, l \in sending,
         sending' = sending \ {l},
         late' = late \/ late' = (IF is_email_suppressed(l) THEN [late EXCEPT ![l] = Counted(@)] ELSE late),
         \A t \in SendTasks : At(t, "cleared")' => Lead(t) # l,
         \A d \in Deliveries : InAt(d, "replying")' => Sender(d) # l
  PROVE  LateInv'
<1>1. \A t \in SendTasks : At(t, "cleared")' => At(t, "cleared") /\ Lead(t)' = Lead(t)
  BY DEF NoTakeOff, Lead
<1>2. LockHeldAlone'
  BY <1>1 DEF LateInv, LockHeldAlone, NoTakeOff, Sender
<1>3. late[l] = 0
  BY DEF LateInv, LateIsOver, DispatchTypeOK
<1>4. /\ \A m \in Leads : m # l => late'[m] = late[m]
      /\ late'[l] = 0 \/ (late'[l] = 1 /\ is_email_suppressed(l))
  BY <1>3 DEF DispatchTypeOK, Counted, CAP
<1>5. LateIsOver' /\ AtMostOneLateEmail'
  BY <1>3, <1>4 DEF LateInv, LateIsOver, AtMostOneLateEmail, Grows, is_email_suppressed
<1> QED BY <1>2, <1>5 DEF LateInv

\* A campaign email takes off, and an automatic reply does.
LEMMA TaskTakesOff ==
  ASSUME LateInv, Grows, NEW t \in SendTasks, BeginDispatch(Lead(t)), Lead(t) \in Leads,
         task'[t].enr = task[t].enr,
         \A o \in SendTasks : o # t => task'[o] = task[o],
         UNCHANGED <<inbound, suppressed, optOut>>
  PROVE  LateInv'
<1>1. /\ Lead(t) \notin sending /\ ~is_email_suppressed(Lead(t))
      /\ sending' = sending \cup {Lead(t)} /\ late' = late
  BY DEF BeginDispatch, Dispatchable
<1>2. \A o \in SendTasks : o # t /\ At(o, "cleared")' => At(o, "cleared") /\ Lead(o)' = Lead(o)
  BY DEF At, Lead
<1>3. Lead(t)' = Lead(t)
  BY DEF Lead
<1>4. LockHeldAlone'
  BY <1>1, <1>2, <1>3 DEF LateInv, LockHeldAlone, InAt, Sender
<1>5. LateIsOver' /\ AtMostOneLateEmail'
  BY <1>1 DEF LateInv, LateIsOver, AtMostOneLateEmail, is_email_suppressed
<1> QED BY <1>4, <1>5 DEF LateInv

LEMMA ReplyTakesOff ==
  ASSUME LateInv, NEW d \in Deliveries, BeginDispatch(Sender(d)),
         \A o \in Deliveries : o # d => inbound'[o] = inbound[o],
         UNCHANGED <<task, suppressed, optOut>>
  PROVE  LateInv'
<1>1. /\ Sender(d) \notin sending /\ ~is_email_suppressed(Sender(d))
      /\ sending' = sending \cup {Sender(d)} /\ late' = late
  BY DEF BeginDispatch, Dispatchable
<1>2. \A o \in Deliveries : o # d /\ InAt(o, "replying")' => InAt(o, "replying")
  BY DEF InAt
<1>3. LockHeldAlone'
  BY <1>1, <1>2 DEF LateInv, LockHeldAlone, At, Lead, Sender
<1>4. LateIsOver' /\ AtMostOneLateEmail'
  BY <1>1 DEF LateInv, LateIsOver, AtMostOneLateEmail, is_email_suppressed
<1> QED BY <1>3, <1>4 DEF LateInv

-----------------------------------------------------------------------------
(* The steps of send tasks and deliveries.                                  *)

LEMMA TaskStepsAside ==
  ASSUME TaskOK, NEW t \in SendTasks, UNCHANGED inbound,
         \/ Return(t) \/ Raise(t)
         \/ \E pc \in {"loaded", "drafted", "ready", "dispatched", "marked"} : Goto(t, pc)
  PROVE  NoTakeOff /\ ~At(t, "cleared")'
<1>1. CASE Return(t) BY <1>1 DEF TaskOK, Return, Idle, NoTakeOff, At, InAt
<1>2. CASE Raise(t)
  <2>1. CASE task[t].tries >= MAX_RETRIES
    BY <1>2, <2>1 DEF TaskOK, Raise, Idle, NoTakeOff, At, InAt
  <2>2. CASE ~(task[t].tries >= MAX_RETRIES)
    BY <1>2, <2>2 DEF TaskOK, Raise, NoTakeOff, At, InAt
  <2> QED BY <2>1, <2>2
<1>3. ASSUME NEW pc \in {"loaded", "drafted", "ready", "dispatched", "marked"}, Goto(t, pc)
      PROVE  NoTakeOff /\ ~At(t, "cleared")'
  BY <1>3 DEF TaskOK, Goto, NoTakeOff, At, InAt
<1> QED BY <1>1, <1>2, <1>3

LEMMA SendKeepsLate ==
  ASSUME SendSideOK, LateInv, NEW t \in SendTasks, SendProgress(t) \/ SendFault(t),
         UNCHANGED inbound
  PROVE  LateInv'
<1> USE DEF SendSideOK
<1>1. UNCHANGED <<suppressed, optOut>> /\ Grows
  BY SendKeepsTypes DEF Grows
<1>2. CASE UNCHANGED dispatchVars /\
           \/ Return(t) \/ Raise(t)
           \/ \E pc \in {"loaded", "drafted", "ready", "dispatched", "marked"} : Goto(t, pc)
  BY <1>1, <1>2, TaskStepsAside, NothingSent DEF dispatchVars
<1>3. CASE SkipStopped(t) \/ Load(t) \/ FailsOnName(t) \/ DispatchRefused(t) \/ MarkSent(t)
           \/ ScheduleFails(t) \/ Advance(t) \/ Complete(t) \/ DeferNoMailbox(t)
  BY <1>2, <1>3 DEF SkipStopped, Load, FailsOnName, DispatchRefused, MarkSent, ScheduleFails,
     Advance, Complete, DeferNoMailbox, ReturnOrRaise, dispatchVars
<1>4. CASE HaltSuppressed(t) \/ NoStepLeft(t) \/ HoldForReview(t) \/ MakeReady(t) \/ Render(t)
  BY <1>2, <1>4 DEF HaltSuppressed, NoStepLeft, HoldForReview, MakeReady, Render, MoveAndReturn,
     ReturnOrRaise, dispatchVars
<1>5. CASE Clear(t)
  <2>1. Lead(t) \in Leads
    BY <1>5, BusyTask DEF Clear, At
  <2>2. task'[t].enr = task[t].enr /\ \A o \in SendTasks : o # t => task'[o] = task[o]
    BY <1>5 DEF Clear, Goto, TaskOK
  <2> QED BY <1>1, <1>5, <2>1, <2>2, TaskTakesOff DEF Clear
<1>6. CASE /\ At(t, "cleared")
           /\ AbortDispatch(Lead(t)) \/ Accept(Lead(t), TRUE) \/ Accept(Lead(t), FALSE)
           /\ \/ Return(t) \/ Raise(t)
              \/ \E pc \in {"loaded", "drafted", "ready", "dispatched", "marked"} : Goto(t, pc)
  <2>1. NoTakeOff /\ ~At(t, "cleared")'
    BY <1>6, TaskStepsAside
  <2>2. Lead(t) \in Leads /\ Lead(t) \in sending
    BY <1>6, BusyTask DEF At, LateInv, LockHeldAlone
  <2>3. /\ \A o \in SendTasks : At(o, "cleared")' => Lead(o) # Lead(t)
        /\ \A d \in Deliveries : InAt(d, "replying")' => Sender(d) # Lead(t)
    BY <1>6, <2>1 DEF NoTakeOff, LateInv, LockHeldAlone
  <2>4. /\ sending' = sending \ {Lead(t)}
        /\ \/ late' = late
           \/ late' = IF is_email_suppressed(Lead(t)) THEN [late EXCEPT ![Lead(t)] = Counted(@)] ELSE late
    BY <1>6 DEF AbortDispatch, Accept
  <2> QED BY <1>1, <2>1, <2>2, <2>3, <2>4, Landed
<1>7. CASE Send(t) \/ SendFails(t) \/ SendUnrecorded(t)
  BY <1>6, <1>7 DEF Send, SendFails, SendUnrecorded
<1>8. CASE SendCrash(t)
  BY <1>2, <1>6, <1>8 DEF SendCrash
<1>9. CASE SendError(t)
  BY <1>2, <1>9 DEF SendError
<1> QED BY <1>3, <1>4, <1>5, <1>7, <1>8, <1>9 DEF SendProgress, SendFault

LEMMA CommitGrows ==
  ASSUME InboundOK, NEW d \in Deliveries, CommitMessage(d)
  PROVE  Grows
<1>1. CASE inbound[d].open
  BY <1>1 DEF CommitMessage, Grows
<1>2. CASE ~inbound[d].open
  BY <1>2 DEF CommitMessage, Grows
<1> QED BY <1>1, <1>2

LEMMA InboundKeepsLate ==
  ASSUME InboundOK, LateInv, NEW d \in Deliveries, InboundProgress(d) \/ InboundFault(d),
         UNCHANGED task
  PROVE  LateInv'
<1> USE DEF InboundOK
<1>1. DOMAIN inbound = Deliveries
  BY DEF InboundTypeOK
<1>2. ASSUME NEW pc \in {"done", "failed"}, End(d, pc) PROVE NoTakeOff /\ ~InAt(d, "replying")'
  BY <1>1, <1>2 DEF End, NoTakeOff, At, InAt, InboundTypeOK
<1>3. ASSUME NEW pc \in {"checked", "classifying", "halting"}, inbound'[d].pc = pc,
             \A o \in Deliveries : o # d => inbound'[o] = inbound[o]
      PROVE  NoTakeOff
  BY <1>3 DEF NoTakeOff, At, InAt
<1>4. ASSUME UNCHANGED storeVars PROVE Grows
  BY <1>4 DEF storeVars, Grows
<1>5. CASE Deduplicate(d)
  <2>1. CASE inbound' = [inbound EXCEPT ![d].pc = "checked"]
    <3>1. NoTakeOff
      BY <1>3, <2>1 DEF InboundTypeOK
    <3> QED BY <1>4, <1>5, <3>1, NothingSent DEF Deduplicate, dispatchVars
  <2>2. CASE End(d, "done") \/ End(d, "failed")
    BY <1>2, <1>4, <1>5, <2>2, NothingSent DEF Deduplicate, dispatchVars
  <2> QED BY <1>5, <2>1, <2>2 DEF Deduplicate
<1>6. CASE Persist(d)
  <2>1. NoTakeOff
    BY <1>6 DEF Persist, NoTakeOff, At, InAt, InboundTypeOK
  <2> QED BY <1>4, <1>6, <2>1, NothingSent DEF Persist, dispatchVars
<1>7. ASSUME NEW target \in {"COMPLETED", "REPLIED"}, Classify(d, target) PROVE LateInv'
  <2>1. NoTakeOff
    BY <1>7 DEF Classify, NoTakeOff, At, InAt, InboundTypeOK
  <2> QED BY <1>4, <1>7, <2>1, NothingSent DEF Classify, dispatchVars
<1>8. CASE IgnoreAutoReply(d) \/ Finish(d)
  BY <1>2, <1>8, CommitGrows, NothingSent DEF IgnoreAutoReply, Finish, Commit
<1>9. ASSUME NEW e \in Enrollments, Halt(d, e) PROVE LateInv'
  <2>1. NoTakeOff
    BY <1>9 DEF Halt, NoTakeOff, At, InAt, InboundTypeOK
  <2> QED BY <1>9, <2>1, CommitGrows, NothingSent DEF Halt, Commit
<1>10. CASE HaltFails(d)
  BY <1>2, <1>4, <1>10, NothingSent DEF HaltFails, Fail, dispatchVars
<1>11. CASE BeginReply(d)
  <2>1. \A o \in Deliveries : o # d => inbound'[o] = inbound[o]
    BY <1>11 DEF BeginReply, InboundTypeOK
  <2> QED BY <1>11, <2>1, ReplyTakesOff DEF BeginReply, storeVars
<1>12. CASE /\ InAt(d, "replying") /\ Grows
            /\ sending' = sending \ {Sender(d)}
            /\ \/ late' = late
               \/ late' = IF is_email_suppressed(Sender(d)) THEN [late EXCEPT ![Sender(d)] = Counted(@)] ELSE late
            /\ \E pc \in {"done", "failed"} : End(d, pc)
  <2>1. NoTakeOff /\ ~InAt(d, "replying")'
    BY <1>2, <1>12
  <2>2. Sender(d) \in Leads /\ Sender(d) \in sending
    BY <1>12, SenderType DEF LateInv, LockHeldAlone
  <2>3. /\ \A t \in SendTasks : At(t, "cleared")' => Lead(t) # Sender(d)
        /\ \A o \in Deliveries : InAt(o, "replying")' => Sender(o) # Sender(d)
    BY <1>12, <2>1 DEF NoTakeOff, LateInv, LockHeldAlone
  <2> QED BY <1>12, <2>1, <2>2, <2>3, Landed
<1>13. CASE Reply(d)
  BY <1>12, <1>13, CommitGrows DEF Reply, Accept
<1>14. CASE ReplyFails(d)
  BY <1>12, <1>14, CommitGrows DEF ReplyFails
<1>15. CASE InboundCrash(d)
  <2>1. CASE InAt(d, "replying")
    BY <1>4, <1>12, <1>15, <2>1 DEF InboundCrash, Fail, AbortDispatch
  <2>2. CASE ~InAt(d, "replying")
    BY <1>2, <1>4, <1>15, <2>2, NothingSent DEF InboundCrash, Fail, dispatchVars
  <2> QED BY <2>1, <2>2
<1> QED
  BY <1>5, <1>6, <1>7, <1>8, <1>9, <1>10, <1>11, <1>13, <1>14, <1>15
     DEF InboundProgress, InboundFault

\* A lead whose opt-out or manual suppression has committed is sent one more email
\* at most, by every campaign and every automatic reply together: the dispatch that
\* had passed its re-check before (send_service.py:55), however many tasks, retries,
\* crashes and lost acknowledgements there are.
THEOREM LateEmailBound == Spec => []AtMostOneLateEmail
<1>1. Init => LateInv
  BY DEF Init, SendInit, InboundInit, DispatchInit, Idle, LateInv, LockHeldAlone, LateIsOver,
         AtMostOneLateEmail, At, InAt
<1>2. TypeOK /\ LateInv /\ [Next]_vars => LateInv'
  <2> SUFFICES ASSUME TypeOK, LateInv, [Next]_vars PROVE LateInv'
    OBVIOUS
  <2>1. ASSUME Grows, UNCHANGED <<task, inbound, sending, late>> PROVE LateInv'
    BY <2>1, NothingSent DEF NoTakeOff, At, InAt
  <2>2. ASSUME NEW t \in SendTasks, SendProgress(t) \/ SendFault(t),
               UNCHANGED <<schedulerVars, inboundVars>>
        PROVE  LateInv'
    BY <2>2, SendKeepsLate
       DEF TypeOK, StoreTypeOK, SendTypeOK, SendSideOK, TaskOK, SentOK, inboundVars
  <2>3. ASSUME NEW ev \in Evaluators, SchedulerProgress(ev) \/ SchedulerFault(ev),
               UNCHANGED inboundVars
        PROVE  LateInv'
    <3>1. CASE HandOver(ev)
      <4>1. PICK t \in SendTasks : Delay(t, handing[ev])
        BY <3>1 DEF HandOver
      <4>2. NoTakeOff
        BY <2>3, <4>1 DEF Delay, NoTakeOff, At, InAt, TypeOK, SendTypeOK, inboundVars
      <4>3. Grows
        BY <3>1 DEF HandOver, storeVars, Grows
      <4> QED BY <4>1, <4>2, <4>3, NothingSent DEF Delay, dispatchVars
    <3>2. CASE ~HandOver(ev)
      <4>1. UNCHANGED <<sendVars, suppressed, optOut>>
        BY <2>3, <3>2 DEF SchedulerProgress, SchedulerFault, Evaluate, Release, HandOverFails,
           EvaluatorCrash, storeVars
      <4> QED BY <2>1, <2>3, <4>1 DEF sendVars, dispatchVars, inboundVars, Grows
    <3> QED BY <3>1, <3>2
  <2>4. ASSUME NEW d \in Deliveries, InboundProgress(d) \/ InboundFault(d),
               UNCHANGED <<task, seen, sent, unmarked, schedulerVars>>
        PROVE  LateInv'
    BY <2>4, InboundKeepsLate DEF TypeOK, InboundOK
  <2>5. CASE ApiNext /\ UNCHANGED <<sendVars, schedulerVars, inboundVars>>
    <3>1. Grows
      BY <2>5 DEF ApiNext, enroll_leads, TimePasses, launch_campaign, pause_campaign,
                  resume_campaign, update_campaign, set_status, book_meeting,
                  add_to_suppression_list, Grows
    <3> QED BY <2>1, <2>5, <3>1 DEF sendVars, dispatchVars, inboundVars
  <2>6. CASE UNCHANGED vars
    BY <2>1, <2>6 DEF Grows, vars, storeVars, sendVars, dispatchVars, inboundVars
  <2> QED BY <2>2, <2>3, <2>4, <2>5, <2>6 DEF Next, SendNext, SchedulerNext, InboundNext
<1>3. LateInv => AtMostOneLateEmail
  BY DEF LateInv
<1> QED BY <1>1, <1>2, <1>3, TypeCorrect, PTL DEF Spec

-----------------------------------------------------------------------------
(* What brings an ended enrollment back: a copy loaded before its end.       *)

\* From the transition to READY on, a task's copy has the state the task gave the row.
CopyInStep ==
  \A t \in SendTasks :
    /\ task[t].pc \in {"ready", "cleared", "dispatched"} => seen[t].state = "READY"
    /\ At(t, "marked") => seen[t].state = "SENT"

LEMMA SendKeepsCopy ==
  ASSUME SendSideOK, CopyInStep, NEW t \in SendTasks, SendProgress(t) \/ SendFault(t)
  PROVE  CopyInStep'
<1> USE DEF SendSideOK
<1>1. ASSUME \A o \in SendTasks : o # t => task'[o] = task[o] /\ seen'[o] = seen[o],
             task'[t].pc \in {"ready", "cleared", "dispatched"} => seen'[t].state = "READY",
             task'[t].pc = "marked" => seen'[t].state = "SENT"
      PROVE  CopyInStep'
  BY <1>1 DEF CopyInStep, At
<1>2. CASE Return(t) \/ Raise(t)
  <2>1. \A o \in SendTasks : o # t => task'[o] = task[o] /\ seen'[o] = seen[o]
    BY <1>2, ReturnEffect, RaiseEffect DEF TaskOK, Return, Raise
  <2>2. task'[t].pc \in {"idle", "queued"}
    BY <1>2, ReturnEffect, RaiseStep DEF Idle
  <2> QED BY <1>1, <2>1, <2>2
<1>3. CASE HaltSuppressed(t) \/ NoStepLeft(t) \/ HoldForReview(t)
  BY <1>2, <1>3 DEF HaltSuppressed, NoStepLeft, HoldForReview, MoveAndReturn, ReturnOrRaise
<1>4. CASE SkipStopped(t) \/ FailsOnName(t) \/ DispatchRefused(t) \/ ScheduleFails(t) \/ Advance(t)
           \/ Complete(t) \/ DeferNoMailbox(t) \/ SendCrash(t) \/ SendFails(t) \/ SendUnrecorded(t)
           \/ SendError(t)
  BY <1>2, <1>4 DEF SkipStopped, FailsOnName, DispatchRefused, ScheduleFails, Advance, ReturnOrRaise,
     Complete, DeferNoMailbox, SendCrash, SendFails, SendUnrecorded, SendError
<1>5. ASSUME NEW pc, pc # "idle", Goto(t, pc), \A o \in SendTasks : o # t => seen'[o] = seen[o],
             pc \in {"ready", "cleared", "dispatched"} => seen'[t].state = "READY",
             pc = "marked" => seen'[t].state = "SENT"
      PROVE  CopyInStep'
  BY <1>1, <1>5, GotoEffect
<1>6. CASE Load(t)
  <2>1. Goto(t, "loaded") /\ \A o \in SendTasks : o # t => seen'[o] = seen[o]
    BY <1>6 DEF Load, TaskOK
  <2> QED BY <1>5, <2>1
<1>7. CASE Render(t)
  <2>1. seen' = seen
    BY <1>7 DEF Render
  <2>2. CASE seen[t].state = "READY"
    BY <1>5, <1>7, <2>1, <2>2 DEF Render
  <2>3. CASE seen[t].state # "READY"
    BY <1>5, <1>7, <2>1, <2>3 DEF Render
  <2> QED BY <2>2, <2>3
<1>8. CASE MakeReady(t)
  <2>1. CASE ~can_transition(seen[t].state, "READY")
    BY <1>2, <1>8, <2>1 DEF MakeReady
  <2>2. CASE can_transition(seen[t].state, "READY")
    <3>1. /\ Goto(t, "ready") /\ seen' = [seen EXCEPT ![t] = row'[task[t].enr]]
          /\ row' = Moved(task[t].enr, seen[t], "READY") /\ task[t].enr \in Enrollments
      BY <1>8, <2>2, BusyTask DEF MakeReady, At
    <3>2. seen'[t].state = "READY" /\ \A o \in SendTasks : o # t => seen'[o] = seen[o]
      BY <3>1, MovedRow DEF TaskOK
    <3> QED BY <1>5, <3>1, <3>2
  <2> QED BY <2>1, <2>2
<1>9. CASE Clear(t) \/ Send(t)
  <2>1. seen' = seen /\ seen[t].state = "READY" /\ (Goto(t, "cleared") \/ Goto(t, "dispatched"))
    BY <1>9 DEF Clear, Send, CopyInStep, At
  <2> QED BY <1>5, <2>1
<1>10. CASE MarkSent(t)
  <2>1. /\ Goto(t, "marked") /\ seen' = [seen EXCEPT ![t] = row'[task[t].enr]]
        /\ row' = Moved(task[t].enr, seen[t], "SENT") /\ task[t].enr \in Enrollments
    BY <1>10, BusyTask DEF MarkSent, At
  <2>2. seen'[t].state = "SENT" /\ \A o \in SendTasks : o # t => seen'[o] = seen[o]
    BY <2>1, MovedRow DEF TaskOK
  <2> QED BY <1>5, <2>1, <2>2
<1> QED
  BY <1>3, <1>4, <1>6, <1>7, <1>8, <1>9, <1>10 DEF SendProgress, SendFault

LEMMA CopiesInStep == Spec => []CopyInStep
<1>1. Init => CopyInStep
  BY DEF Init, SendInit, Idle, CopyInStep, At
<1>2. TypeOK /\ CopyInStep /\ [Next]_vars => CopyInStep'
  <2> SUFFICES ASSUME TypeOK, CopyInStep, [Next]_vars PROVE CopyInStep'
    OBVIOUS
  <2>1. ASSUME UNCHANGED <<task, seen>> PROVE CopyInStep'
    BY <2>1 DEF CopyInStep, At
  <2>2. ASSUME NEW t \in SendTasks, SendProgress(t) \/ SendFault(t) PROVE CopyInStep'
    BY <2>2, SendKeepsCopy DEF TypeOK, StoreTypeOK, SendTypeOK, SendSideOK, TaskOK, SentOK
  <2>3. ASSUME NEW ev \in Evaluators, SchedulerProgress(ev) \/ SchedulerFault(ev) PROVE CopyInStep'
    <3>1. CASE HandOver(ev)
      <4>1. PICK o \in SendTasks : Delay(o, handing[ev])
        BY <3>1 DEF HandOver
      <4> QED BY <4>1 DEF Delay, CopyInStep, At, TypeOK, SendTypeOK
    <3>2. CASE ~HandOver(ev)
      BY <2>1, <2>3, <3>2 DEF SchedulerProgress, SchedulerFault, Evaluate, Release, HandOverFails,
         EvaluatorCrash, sendVars
    <3> QED BY <3>1, <3>2
  <2>4. CASE ApiNext /\ UNCHANGED <<sendVars, schedulerVars, inboundVars>>
    BY <2>1, <2>4 DEF sendVars
  <2>5. CASE InboundNext /\ UNCHANGED <<task, seen, sent, unmarked, schedulerVars>>
    BY <2>1, <2>5
  <2>6. CASE UNCHANGED vars
    BY <2>1, <2>6 DEF vars, sendVars
  <2> QED BY <2>2, <2>3, <2>4, <2>5, <2>6 DEF Next, SendNext, SchedulerNext
<1> QED BY <1>1, <1>2, TypeCorrect, PTL DEF Spec

Ended(e) == row[e].state \in TERMINAL_STATES

\* The row of an ended enrollment stays in its state, or the copy of a process allows
\* the new one.
Kept(e) == row'[e].state = row[e].state \/ CopyAllows(e, row'[e].state)

LEMMA SendKeepsEnded ==
  ASSUME SendSideOK, CopyInStep, NEW t \in SendTasks, SendProgress(t) \/ SendFault(t),
         NEW e \in Enrollments
  PROVE  Kept(e)
<1> USE DEF SendSideOK
<1>1. CASE UNCHANGED row
  BY <1>1 DEF Kept
<1>2. ASSUME NEW new_state, row' = Moved(task[t].enr, seen[t], new_state), task[t].enr \in Enrollments,
             new_state \in VALID_TRANSITIONS(seen[t].state)
      PROVE  Kept(e)
  BY <1>2, MovedState DEF Kept, CopyAllows
<1>3. ASSUME NEW new_state, MoveAndReturn(t, seen[t], new_state), ~At(t, "idle") PROVE Kept(e)
  BY <1>1, <1>2, <1>3, BusyTask DEF MoveAndReturn, can_transition, At
<1>4. CASE HaltSuppressed(t) \/ NoStepLeft(t) \/ HoldForReview(t)
  BY <1>3, <1>4 DEF HaltSuppressed, NoStepLeft, HoldForReview, HasStep, Passed, Checked, At
<1>5. CASE MakeReady(t)
  BY <1>1, <1>2, <1>5, BusyTask DEF MakeReady, can_transition, At
<1>6. CASE MarkSent(t)
  <2>1. "SENT" \in VALID_TRANSITIONS(seen[t].state)
    BY <1>6 DEF MarkSent, CopyInStep, At, VALID_TRANSITIONS
  <2> QED BY <1>2, <1>6, <2>1, BusyTask DEF MarkSent, At
<1>7. CASE Advance(t)
  <2>1. "WAITING" \in VALID_TRANSITIONS(seen[t].state) /\ task[t].enr \in Enrollments
    BY <1>7, BusyTask DEF Advance, CopyInStep, At, VALID_TRANSITIONS
  <2>2. row'[e] = row[e] \/ (e = task[t].enr /\ row'[e].state = "WAITING")
    BY <1>7, <2>1 DEF Advance
  <2> QED BY <2>1, <2>2 DEF Kept, CopyAllows
<1>8. CASE Complete(t)
  <2>1. "COMPLETED" \in VALID_TRANSITIONS(seen[t].state)
    BY <1>8 DEF Complete, CopyInStep, At, VALID_TRANSITIONS, TERMINAL_STATES
  <2> QED BY <1>2, <1>8, <2>1, BusyTask DEF Complete, At
<1>9. CASE SkipStopped(t) \/ Load(t) \/ FailsOnName(t) \/ Render(t) \/ Clear(t) \/ DispatchRefused(t)
           \/ Send(t) \/ ScheduleFails(t) \/ SendFault(t)
  BY <1>1, <1>9 DEF SkipStopped, Load, FailsOnName, Render, Clear, DispatchRefused, Send, ScheduleFails,
     SendFault, DeferNoMailbox, SendFails, SendUnrecorded, SendError, SendCrash, storeVars
<1> QED BY <1>4, <1>5, <1>6, <1>7, <1>8, <1>9 DEF SendProgress

LEMMA SchedulerKeepsEnded ==
  ASSUME TypeOK, NEW ev \in Evaluators, SchedulerProgress(ev) \/ SchedulerFault(ev),
         NEW e \in Enrollments
  PROVE  Kept(e)
<1>1. ASSUME NEW f \in Enrollments, Release(ev, f) PROVE Kept(e)
  BY <1>1 DEF Release, Kept, CopyAllows, TypeOK, StoreTypeOK, Row
<1>2. CASE Evaluate(ev) \/ HandOver(ev) \/ HandOverFails(ev) \/ EvaluatorCrash(ev)
  BY <1>2 DEF Evaluate, HandOver, HandOverFails, EvaluatorCrash, storeVars, Kept
<1> QED BY <1>1, <1>2 DEF SchedulerProgress, SchedulerFault

LEMMA InboundKeepsEnded ==
  ASSUME InboundOK, NEW d \in Deliveries, InboundProgress(d) \/ InboundFault(d),
         NEW e \in Enrollments
  PROVE  Kept(e)
<1>1. ASSUME NEW f \in Enrollments, Halt(d, f) PROVE Kept(e)
  BY <1>1, MovedState DEF Halt, InboundOK, StoreTypeOK, Kept, CopyAllows, can_transition
<1>2. CASE UNCHANGED row
  BY <1>2 DEF Kept
<1> QED
  BY <1>1, <1>2 DEF InboundProgress, InboundFault, Deduplicate, Persist, IgnoreAutoReply, Classify,
     HaltFails, Fail, Finish, BeginReply, Reply, ReplyFails, InboundCrash, storeVars

LEMMA ApiLeavesEnded ==
  ASSUME StoreTypeOK, ApiNext, NEW e \in Enrollments, Ended(e)
  PROVE  row'[e].state = row[e].state
<1> USE DEF StoreTypeOK, Ended, TERMINAL_STATES
<1>1. ASSUME NEW f \in Enrollments, enroll_leads(f) \/ TimePasses(f)
      PROVE  row'[e].state = row[e].state
  BY <1>1 DEF enroll_leads, TimePasses, NotEnrolled, Row
<1>2. ASSUME NEW c \in Campaigns, launch_campaign(c) PROVE row'[e].state = row[e].state
  BY <1>2 DEF launch_campaign, Row
<1>3. ASSUME NEW l \in Leads, book_meeting(l) PROVE row'[e].state = row[e].state
  BY <1>3 DEF book_meeting, Bookable
<1> QED
  BY <1>1, <1>2, <1>3 DEF ApiNext, pause_campaign, resume_campaign, update_campaign, set_status,
     add_to_suppression_list

\* An enrollment that has ended changes state only by the hand of an evaluator, send
\* task or inbound task whose copy, loaded before the end, allows the new state: no
\* request, and no process that loads it afterwards, brings it back.
THEOREM EndedForGood == Spec => EndedStaysEnded
<1>1. TypeOK /\ CopyInStep /\ [Next]_vars =>
        [\A e \in Enrollments :
           row[e].state \in TERMINAL_STATES /\ row'[e].state # row[e].state
             => CopyAllows(e, row'[e].state)]_vars
  <2> SUFFICES ASSUME TypeOK, CopyInStep, Next, NEW e \in Enrollments, Ended(e)
               PROVE  Kept(e)
    BY DEF Ended, Kept
  <2>1. ASSUME NEW t \in SendTasks, SendProgress(t) \/ SendFault(t) PROVE Kept(e)
    BY <2>1, SendKeepsEnded DEF TypeOK, StoreTypeOK, SendTypeOK, SendSideOK, TaskOK, SentOK
  <2>2. ASSUME NEW ev \in Evaluators, SchedulerProgress(ev) \/ SchedulerFault(ev) PROVE Kept(e)
    BY <2>2, SchedulerKeepsEnded
  <2>3. ASSUME NEW d \in Deliveries, InboundProgress(d) \/ InboundFault(d) PROVE Kept(e)
    BY <2>3, InboundKeepsEnded DEF TypeOK, InboundOK
  <2>4. CASE ApiNext
    BY <2>4, ApiLeavesEnded DEF TypeOK, Kept
  <2> QED BY <2>1, <2>2, <2>3, <2>4 DEF Next, SendNext, SchedulerNext, InboundNext
<1> QED BY <1>1, CopiesInStep, TypeCorrect, PTL DEF Spec, EndedStaysEnded

=============================================================================
