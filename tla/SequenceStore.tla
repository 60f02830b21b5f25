---------------------------- MODULE SequenceStore ----------------------------
(***************************************************************************)
(* The PostgreSQL rows that the sequence engine's processes share: campaign *)
(* status, one campaign_leads row per enrollment, the suppression list and  *)
(* the leads' opt-out flags.  The processes are in SendTask, SchedulerTask,  *)
(* InboundTask and ApiRequests; SequenceEngine composes them.               *)
(*                                                                         *)
(* Sessions are opened with autoflush and expire_on_commit off              *)
(* (apps/api/core/database.py), under READ COMMITTED: a process keeps the   *)
(* attributes it loaded until it refreshes them, decides on those, and its  *)
(* UPDATE overwrites whatever has been committed since.                     *)
(***************************************************************************)
EXTENDS Integers, FiniteSets, SequenceStates

CONSTANTS
  Campaigns, Leads,
  Enrollments,      \* campaign_leads rows, one per (campaign, lead)
  campaignOf, leadOf,
  stepCount,        \* number of steps of each campaign
  MaxSteps,         \* bound of stepCount
  Evaluators,       \* workers that run evaluate_campaign_schedules_task
  MissingNames,     \* attributes the code reads and the models do not define
  Faults            \* the failures a run lets happen

ASSUME StoreAssumption ==
  /\ MaxSteps \in Nat \ {0}
  /\ campaignOf \in [Enrollments -> Campaigns]
  /\ leadOf \in [Enrollments -> Leads]
  /\ \A e1, e2 \in Enrollments :
       campaignOf[e1] = campaignOf[e2] /\ leadOf[e1] = leadOf[e2] => e1 = e2
  /\ stepCount \in [Campaigns -> 0 .. MaxSteps]
  /\ MissingNames \subseteq {"is_opted_out", "WARMING", "title", "custom_fields_json"}
  /\ Faults \subseteq {"crash", "broker", "no_mailbox", "provider", "lost_ack",
                "error", "late_error"}

VARIABLES
  status,      \* campaigns.status
  row,         \* campaign_leads: state, current_step_number, next_action_at
  suppressed,  \* leads whose address is in suppression_list
  optOut,      \* leads with opt_out and do_not_contact set
  locked       \* rows each evaluator holds FOR UPDATE, with their campaigns' rows

storeVars == <<status, row, suppressed, optOut, locked>>

Steps == 1 .. MaxSteps

\* next_action_at is NULL, a time to come, or a time that has passed.
Row == [state : LeadSequenceState \cup {"NOT_ENROLLED"},
        step : Steps,
        nextAction : {"none", "later", "due"}]

NotEnrolled == [state |-> "NOT_ENROLLED", step |-> 1, nextAction |-> "none"]
EnrolledAt0 == [state |-> "QUEUED", step |-> 0, nextAction |-> "none"]   \* off by one
Enrolled    == [state |-> "QUEUED", step |-> 1, nextAction |-> "none"]

StoreTypeOK ==
  /\ status \in [Campaigns -> CampaignState]
  /\ row \in [Enrollments -> Row]
  /\ suppressed \subseteq Leads
  /\ optOut \subseteq Leads
  /\ locked \in [Evaluators -> SUBSET Enrollments]

StoreInit ==
  /\ status = [c \in Campaigns |-> "DRAFT"]
  /\ row = [e \in Enrollments |-> NotEnrolled]
  /\ suppressed = {}
  /\ optOut = {}
  /\ locked = [ev \in Evaluators |-> {}]

-----------------------------------------------------------------------------

\* A transition's UPDATE writes the state, and clears next_action_at only when
\* the state is terminal and the session had loaded a value to clear.
Moved(e, loaded, new_state) ==
  [row EXCEPT ![e].state = new_state,
              ![e].nextAction = IF new_state \in TERMINAL_STATES /\ loaded.nextAction # "none"
                                THEN "none" ELSE @]

RowFree(e) == \A ev \in Evaluators : e \notin locked[ev]

\* A transition also inserts an audit event that refers to the campaign, so it
\* waits for an evaluator that holds the campaign's row, as any write to it does.
Writable(c) == \A ev \in Evaluators : \A e \in locked[ev] : campaignOf[e] # c

is_email_suppressed(l) == l \in suppressed \cup optOut

=============================================================================
