--------------------------- MODULE SequenceStates ---------------------------
(***************************************************************************)
(* The vocabulary of a campaign sequence: the states of a campaign, of a   *)
(* lead's enrollment in it, and the transition table that                  *)
(* packages/campaign/state_machine.py enforces.                            *)
(***************************************************************************)

CampaignState ==
  {"DRAFT", "REVIEW", "SCHEDULED", "RUNNING", "PAUSED", "COMPLETED", "ARCHIVED"}

TERMINAL_STATES ==
  {"UNSUBSCRIBED", "BOUNCED", "MEETING_BOOKED", "QUALIFIED", "DISQUALIFIED",
   "HANDOFF", "COMPLETED"}

LeadSequenceState ==
  {"QUEUED", "WAITING", "READY", "SENT", "REPLIED", "PAUSED"} \cup TERMINAL_STATES

\* The states an enrollment may be moved to; a terminal state has none.
VALID_TRANSITIONS(current) ==
  CASE current = "QUEUED" ->
         {"WAITING", "READY", "PAUSED", "DISQUALIFIED", "UNSUBSCRIBED"}
    [] current = "WAITING" ->
         {"READY", "PAUSED", "REPLIED"} \cup TERMINAL_STATES
    [] current = "READY" ->
         {"SENT", "PAUSED", "DISQUALIFIED", "UNSUBSCRIBED", "BOUNCED"}
    [] current = "SENT" ->
         {"WAITING", "PAUSED", "REPLIED"} \cup TERMINAL_STATES
    [] current = "REPLIED" ->
         TERMINAL_STATES \ {"BOUNCED"}
    [] current = "PAUSED" ->
         {"QUEUED", "WAITING", "READY", "UNSUBSCRIBED", "DISQUALIFIED"}
    [] OTHER -> {}

\* Two faulty tables: one that lets a failed attempt start again from SENT, one
\* that forgets to let a released enrollment unsubscribe.
can_restart_sent(current, new_state) ==
  new_state \in VALID_TRANSITIONS(current) \/ (current = "SENT" /\ new_state = "READY")

can_transition_not_from_ready(current, new_state) ==
  new_state \in VALID_TRANSITIONS(current) /\ ~(current = "READY" /\ new_state = "UNSUBSCRIBED")

can_transition(current, new_state) == new_state \in VALID_TRANSITIONS(current)

=============================================================================
