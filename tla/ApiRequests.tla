------------------------------ MODULE ApiRequests ------------------------------
(***************************************************************************)
(* The requests of the web application that write the engine's rows         *)
(* (apps/api/routers/campaigns.py, calendar.py, email.py), each one         *)
(* transaction, and the clock that makes a scheduled enrollment due.        *)
(***************************************************************************)
EXTENDS SequenceStore

CONSTANT Requests   \* the kinds of request a run makes

ASSUME RequestsAssumption ==
  Requests \subseteq {"enroll", "launch", "pause", "resume", "patch", "book", "suppress"}

\* A faulty request that enrolls a lead a second time.
enroll_again(e) ==
  /\ "enroll" \in Requests
  /\ Writable(campaignOf[e])
  /\ row' = [row EXCEPT ![e] = Enrolled]
  /\ UNCHANGED <<status, suppressed, optOut, locked>>

\* New enrollments start QUEUED at step 1; the campaign's status is not looked at.
enroll_leads(e) ==
  /\ "enroll" \in Requests
  /\ row[e] = NotEnrolled
  /\ Writable(campaignOf[e])
  /\ row' = [row EXCEPT ![e] = Enrolled]
  /\ UNCHANGED <<status, suppressed, optOut, locked>>

Unscheduled(c) ==
  {e \in Enrollments : campaignOf[e] = c /\ row[e].state = "QUEUED" /\ row[e].nextAction = "none"}

\* Launch reads custom_fields_json of every lead it schedules: while the model
\* lacks it, launching with such an enrollment fails and changes nothing.
launch_campaign(c) ==
  /\ "launch" \in Requests
  /\ stepCount[c] > 0
  /\ Writable(c)
  /\ "custom_fields_json" \in MissingNames => Unscheduled(c) = {}
  /\ status' = [status EXCEPT ![c] = "RUNNING"]
  /\ row' = [e \in Enrollments |->
               IF e \in Unscheduled(c) THEN [row[e] EXCEPT !.nextAction = "later"] ELSE row[e]]
  /\ UNCHANGED <<suppressed, optOut, locked>>

\* Pause, resume and PATCH set the status whatever it was.
set_status(c, new) ==
  /\ Writable(c)
  /\ status' = [status EXCEPT ![c] = new]
  /\ UNCHANGED <<row, suppressed, optOut, locked>>

pause_campaign(c)       == "pause" \in Requests /\ set_status(c, "PAUSED")
resume_campaign(c)      == "resume" \in Requests /\ set_status(c, "RUNNING")
update_campaign(c, new) == "patch" \in Requests /\ set_status(c, new)

Bookable(l) ==
  {e \in Enrollments : leadOf[e] = l /\
     row[e].state \in {"QUEUED", "WAITING", "READY", "SENT", "REPLIED", "PAUSED"}}

\* A faulty booking that takes every enrollment of the lead, ended or not.
book_all(l) ==
  /\ "book" \in Requests
  /\ row' = [e \in Enrollments |->
               IF leadOf[e] = l /\ row[e] # NotEnrolled
               THEN [row[e] EXCEPT !.state = "MEETING_BOOKED"] ELSE row[e]]
  /\ UNCHANGED <<status, suppressed, optOut, locked>>

\* A confirmed meeting writes MEETING_BOOKED past the transition table, and
\* leaves next_action_at as it is.
book_meeting(l) ==
  /\ "book" \in Requests
  /\ \A e \in Bookable(l) : RowFree(e)
  /\ row' = [e \in Enrollments |->
               IF e \in Bookable(l) THEN [row[e] EXCEPT !.state = "MEETING_BOOKED"] ELSE row[e]]
  /\ UNCHANGED <<status, suppressed, optOut, locked>>

\* A manual suppression entry (an address has at most one); the lead's flags and
\* enrollments stay as they are.
add_to_suppression_list(l) ==
  /\ "suppress" \in Requests /\ l \notin suppressed
  /\ suppressed' = suppressed \cup {l}
  /\ UNCHANGED <<status, row, optOut, locked>>

\* The scheduled time arrives.
TimePasses(e) ==
  /\ row[e].nextAction = "later"
  /\ row' = [row EXCEPT ![e].nextAction = "due"]
  /\ UNCHANGED <<status, suppressed, optOut, locked>>

ApiNext ==
  \/ \E e \in Enrollments : enroll_leads(e) \/ TimePasses(e)
  \/ \E c \in Campaigns : launch_campaign(c) \/ pause_campaign(c) \/ resume_campaign(c)
  \/ \E c \in Campaigns, new \in CampaignState : update_campaign(c, new)
  \/ \E l \in Leads : book_meeting(l) \/ add_to_suppression_list(l)

=============================================================================
