------------------------------ MODULE LeadOutcome ------------------------------
(***************************************************************************)
(* How far a lead has come and what the CRM is told of it: the row's        *)
(* qualification_status and is_qualified, the requests of                   *)
(* apps/api/routers/leads.py that write them, and the write-back task of    *)
(* apps/worker/tasks/crm_sync.py.  A session writes only the columns it has *)
(* changed since it loaded them (expire_on_commit is off).                  *)
(***************************************************************************)
EXTENDS ModelGateway, SequencesExt

CONSTANTS
  Titles,       \* the marks a job title may have
  FirstEmails,  \* the marks of the email that opened the thread
  Outcomes,     \* the bodies of POST /leads/{id}/outcome
  MaxRequests,  \* bound on the requests of a run
  Faults        \* of {"broker", "crm", "crash", "mailbox", "provider"}

VARIABLES
  lead,      \* the committed row
  title,     \* the marks of the lead's job title
  thread,    \* the lead's thread: its status and its committed messages
  request,   \* the qualify request under way
  update,    \* the outcome request under way
  requests,  \* requests made so far
  writeBacks,\* sync_lead_outcome_to_crm_task: how many wait, how many have read what
  told,      \* what the task last told the CRM
  stale      \* history: a session overwrote what it had not read, or unset the flag alone

outcomeVars == <<lead, title, thread, request, update, requests, writeBacks, told, stale>>

LeadStatus == Statuses \cup {"DISQUALIFIED"}
LeadRow == [status : LeadStatus, qualified : BOOLEAN]
Unqualified == [status |-> "UNQUALIFIED", qualified |-> FALSE]

Evaluated(status) == [status |-> status, qualified |-> status = "QUALIFIED"]

\* The fields of a body that write the two columns.  All are optional; FALSE and no value do
\* the same for a meeting and a disqualification.
Bodies == [meeting_booked : BOOLEAN, is_qualified : {"unset", "yes", "no"},
           disqualified : BOOLEAN, qualification_status : LeadStatus \cup {"unset"}]

ASSUME OutcomeAssumption == MaxRequests \in Nat /\ Outcomes \subseteq Bodies

NoBody == [meeting_booked |-> FALSE, is_qualified |-> "unset", disqualified |-> FALSE,
           qualification_status |-> "unset"]
NoRequest == [asked |-> FALSE, seen |-> Unqualified, status |-> "UNQUALIFIED"]
NoUpdate == [asked |-> FALSE, seen |-> Unqualified, body |-> NoBody]

OutcomeInit ==
  /\ lead = Unqualified
  /\ title \in Titles
  /\ \E marks \in FirstEmails :
       thread = [status |-> "OPEN", messages |-> <<[from |-> "SDR", marks |-> marks]>>]
  /\ request = NoRequest
  /\ update = NoUpdate
  /\ requests = 0
  /\ writeBacks = [waiting |-> 0, read |-> [b \in BOOLEAN |-> 0]]
  /\ told = "nothing"
  /\ stale = FALSE

-----------------------------------------------------------------------------

Changed(seen, new, field) ==
  IF new[field] # seen[field] THEN new[field] ELSE lead[field]

\* A faulty UPDATE that leaves the flag to a later one.
SaveStatus(seen, new) == lead' = [lead EXCEPT !.status = Changed(seen, new, "status")]

\* The UPDATE of a session that loaded the row as seen and set it to new.
SaveLead(seen, new) ==
  lead' = [status |-> Changed(seen, new, "status"), qualified |-> Changed(seen, new, "qualified")]

Overlapped(seen) == stale \/ seen # lead

\* delay(): the broker takes the task, or refuses and the caller goes on.
Queue == writeBacks' = [writeBacks EXCEPT !.waiting = @ + 1]
QueueOrNot == Queue \/ ("broker" \in Faults /\ UNCHANGED writeBacks)

Said(messages) == UNION {messages[i].marks : i \in DOMAIN messages}

\* Each message is a line that begins with its direction.
Labelled(message) == message.marks \cup {"label"}

-----------------------------------------------------------------------------

\* POST /leads/{id}/qualify: the lead and the messages of its threads are read, then the
\* model is asked.  The latest text, for the safeguards, is the last line of that history,
\* whoever wrote it.
trigger_lead_qualification ==
  /\ ~request.asked /\ requests < MaxRequests
  /\ requests' = requests + 1
  /\ \E s \in evaluate_lead_qualification(title, Said(thread.messages), Labelled(Last(thread.messages))) :
       request' = [asked |-> TRUE, seen |-> lead, status |-> s]
  /\ UNCHANGED <<lead, title, thread, update, writeBacks, told, stale>>

\* Its answer: the lead is committed, then the write-back is queued.
qualification_answers ==
  /\ request.asked
  /\ SaveLead(request.seen, Evaluated(request.status))
  /\ stale' = Overlapped(request.seen)
  /\ IF lead'.qualified THEN QueueOrNot ELSE UNCHANGED writeBacks
  /\ request' = NoRequest
  /\ UNCHANGED <<title, thread, update, requests, told>>

\* The fields of a body are applied in this order, each to what the earlier ones left.
Booked(o, row) == IF o.meeting_booked THEN Evaluated("QUALIFIED") ELSE row
Flagged(o, row) == CASE o.is_qualified = "yes"   -> Evaluated("QUALIFIED")
                     [] o.is_qualified = "no"    -> [row EXCEPT !.qualified = FALSE]
                     [] o.is_qualified = "unset" -> row
Rejected(o, row) == IF o.disqualified THEN Evaluated("DISQUALIFIED") ELSE row
Restated(o, row) ==
  IF o.qualification_status = "unset" THEN row ELSE Evaluated(o.qualification_status)
Applied(o, row) == Restated(o, Rejected(o, Flagged(o, Booked(o, row))))

\* A body that unsets the flag and gives the status no later word.
UnsetsFlagAlone(o) == /\ o.is_qualified = "no" /\ ~o.disqualified
                      /\ o.qualification_status = "unset"

\* POST /leads/{id}/outcome: the lead is read, and committed in a later step.
update_lead_outcome(o) ==
  /\ ~update.asked /\ requests < MaxRequests
  /\ requests' = requests + 1
  /\ update' = [asked |-> TRUE, seen |-> lead, body |-> o]
  /\ UNCHANGED <<lead, title, thread, request, writeBacks, told, stale>>

\* Without a broker the request syncs back by itself, in other words than the task; left out.
outcome_saved ==
  /\ update.asked
  /\ SaveLead(update.seen, Applied(update.body, update.seen))
  /\ stale' = (Overlapped(update.seen) \/ UnsetsFlagAlone(update.body))
  /\ QueueOrNot
  /\ update' = NoUpdate
  /\ UNCHANGED <<title, thread, request, requests, told>>

-----------------------------------------------------------------------------
(* sync_lead_outcome_to_crm_task, for a lead that has a CRM record *)

LoadOutcome ==
  /\ writeBacks.waiting > 0
  /\ writeBacks' = [writeBacks EXCEPT !.waiting = @ - 1, !.read[lead.qualified] = @ + 1]
  /\ UNCHANGED <<lead, title, thread, request, update, requests, told, stale>>

Drop(q) == writeBacks' = [writeBacks EXCEPT !.read[q] = @ - 1]

TellCrm(q) ==
  /\ writeBacks.read[q] > 0
  /\ Drop(q)
  /\ told' = IF q THEN "QUALIFIED" ELSE "IN_PROGRESS"
  /\ UNCHANGED <<lead, title, thread, request, update, requests, stale>>

\* A failed update is retried, which reads the lead anew; after the last try it is lost.
CrmFails(q) ==
  /\ "crm" \in Faults /\ writeBacks.read[q] > 0
  /\ \/ writeBacks' = [writeBacks EXCEPT !.read[q] = @ - 1, !.waiting = @ + 1]
     \/ Drop(q)
  /\ UNCHANGED <<lead, title, thread, request, update, requests, told, stale>>

OutcomeNext ==
  \/ trigger_lead_qualification \/ qualification_answers
  \/ \E o \in Outcomes : update_lead_outcome(o)
  \/ outcome_saved
  \/ LoadOutcome
  \/ \E q \in BOOLEAN : TellCrm(q) \/ CrmFails(q)

=============================================================================
