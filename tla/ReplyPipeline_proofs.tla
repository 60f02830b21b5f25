-------------------------- MODULE ReplyPipeline_proofs --------------------------
(***************************************************************************)
(* Theorems about ReplyPipeline for any messages, any number of tasks at a  *)
(* time and any requests, whatever the models answer and whatever fails.    *)
(***************************************************************************)
EXTENDS ReplyPipeline, DataLemmas

-----------------------------------------------------------------------------
(* What the model calls may answer.                                          *)

\* A keyword table answers with one of its rows, or as if it had none.
LEMMA FirstIsOne ==
  ASSUME NEW table, DOMAIN table \subseteq Nat, NEW marks, NEW otherwise
  PROVE  \/ FirstOf(table, marks, otherwise) = otherwise
         \/ \E i \in DOMAIN table : FirstOf(table, marks, otherwise) = table[i]
<1> DEFINE hits == {i \in DOMAIN table : table[i].on \cap marks # {}}
<1>1. CASE hits = {}
  BY <1>1 DEF FirstOf
<1>2. CASE hits # {}
  <2>1. \E i \in hits : \A j \in hits : i <= j
    <3> HIDE DEF hits
    <3>1. hits \subseteq Nat
      BY DEF hits
    <3> QED
      BY <1>2, <3>1, LeastExists
  <2>2. (CHOOSE i \in hits : \A j \in hits : i <= j) \in hits
    BY <2>1
  <2> QED
    BY <1>2, <2>2 DEF FirstOf
<1> QED
  BY <1>1, <1>2

Classes == [intent : IntentType \cup {"none"}, sure : BOOLEAN, review : BOOLEAN]

LEMMA CannedClass ==
  ASSUME NEW marks
  PROVE  CannedIntent(marks).sure \in BOOLEAN
<1>1. \A i \in DOMAIN CannedIntents : CannedIntents[i].sure = TRUE
  BY DEF CannedIntents, Classed
<1>2. DOMAIN CannedIntents \subseteq Nat
  BY DEF CannedIntents
<1>3. Classed("none", "PRODUCT_QUESTION").sure = TRUE
  BY DEF Classed
<1> HIDE DEF CannedIntents
<1> QED
  BY <1>1, <1>2, <1>3, FirstIsOne DEF CannedIntent

\* Whatever the models say of a message, its class is one the task can act on; and one that
\* asks to be left alone, in its subject or above the quote, is an opt-out.
LEMMA ClassifiedIs ==
  ASSUME NEW mail, NEW c \in classify_reply(mail)
  PROVE  /\ c \in Classes
         /\ is_opt_out(FullText(mail)) => c.intent = "UNSUBSCRIBE"
<1> DEFINE text == FullText(mail)
<1>1. ASSUME NEW a, a.sure \in BOOLEAN PROVE Enforced(a) \in Classes
  BY <1>1 DEF Enforced, Classes, Named, IntentType
<1>2. \A a \in generate_structured(LiveClasses, CannedIntent(text)) : a.sure \in BOOLEAN
  BY CannedClass DEF generate_structured, LiveClasses
<1>3. \A a \in generate_structured(LiveClasses, CannedIntent(text)) : Enforced(a) \in Classes
  BY <1>1, <1>2
<1>4. ASSUME NEW intent \in IntentType, NEW a \in Decided(intent)
      PROVE  a \in Classes /\ a.intent = intent
  <2>1. a = [intent |-> intent, sure |-> TRUE, review |-> FALSE]
    BY <1>4 DEF Decided
  <2> QED
    BY <2>1 DEF Classes
<1>5. CASE is_opt_out(text)
  <2>1. c \in Decided("UNSUBSCRIBE")
    BY <1>5 DEF classify_reply, classify_text
  <2> QED
    BY <1>4, <2>1 DEF IntentType
<1>6. CASE ~is_opt_out(text)
  <2>1. c \in Decided("AUTO_REPLY")
          \cup {Enforced(a) : a \in generate_structured(LiveClasses, CannedIntent(text))}
    BY <1>6 DEF classify_reply, classify_text
  <2>2. c \in Classes
    BY <1>3, <1>4, <2>1 DEF IntentType
  <2> QED
    BY <1>6, <2>2
<1> QED
  BY <1>5, <1>6

Replies == [sure : BOOLEAN, review : BOOLEAN, marks : SUBSET {"price", "thursday"}]

LEMMA RepliesAre ==
  /\ CannedReply \in Replies
  /\ \A r \in generate_structured(LiveReplies, CannedReply) : r \in Replies
<1>1. CannedReply \in Replies
  BY DEF CannedReply, Replies
<1>2. \A r \in LiveReplies : r \in Replies
  BY DEF LiveReplies, Replies
<1> QED
  BY <1>1, <1>2 DEF generate_structured

\* The safeguards only ever choose among the three verdicts.
LEMMA VerdictIs ==
  ASSUME NEW role, NEW history, NEW latest,
         NEW s \in evaluate_lead_qualification(role, history, latest)
  PROVE  s \in Statuses
<1>1. \A i \in DOMAIN CannedVerdicts : CannedVerdicts[i].status \in Statuses
  BY DEF CannedVerdicts, Judged, Statuses
<1>2. DOMAIN CannedVerdicts \subseteq Nat
  BY DEF CannedVerdicts
<1>3. Judged({}, "DEVELOPING", TRUE, "FOLLOW_UP").status \in Statuses
  BY DEF Judged, Statuses
<1>4. CannedVerdict(role \cup history).status \in Statuses
  <2> HIDE DEF CannedVerdicts
  <2> QED
    BY <1>1, <1>2, <1>3, FirstIsOne DEF CannedVerdict
<1>5. \A v \in generate_structured(LiveVerdicts, CannedVerdict(role \cup history)) : v.status \in Statuses
  BY <1>4 DEF generate_structured, LiveVerdicts
<1>6. \A v : v.status \in Statuses => Guarded(v, role, latest) \in Statuses
  BY DEF Guarded, Statuses
<1> QED
  BY <1>5, <1>6 DEF evaluate_lead_qualification

-----------------------------------------------------------------------------
(* The invariant.                                                            *)

Settled == {"qualifying", "judged", "saving", "queued_back"}
Pcs == {"queued", "loaded", "persisted", "classified", "drafted", "done", "dead"} \cup Settled

Tasks ==
  [pc : Pcs, mail : Mails \cup {NoMail}, open : BOOLEAN, seen : LeadRow,
   seenThread : {"OPEN", "REPLIED"}, class : Classes, draft : Replies, show : BOOLEAN,
   status : Statuses]

Updates == [asked : BOOLEAN, seen : LeadRow, body : Bodies]

CountsType == [waiting : Nat, read : [BOOLEAN -> Nat]]

LeadTyped ==
  /\ lead \in LeadRow
  /\ thread.status \in {"OPEN", "REPLIED"}
  /\ request \in [asked : BOOLEAN, seen : LeadRow, status : Statuses]
  /\ update \in Updates
  /\ requests \in 0 .. MaxRequests
  /\ writeBacks \in CountsType
  /\ told \in {"nothing", "QUALIFIED", "IN_PROGRESS"}
  /\ stale \in BOOLEAN

\* A task that has its message flushed and not committed holds the thread's row; a task that
\* has not begun or is over does not.
RowHeld ==
  \A d \in Deliveries :
    /\ task[d].open => lock = d
    /\ task[d].pc \in {"queued", "done", "dead"} => lock # d

\* A draft is of a message whose class may be answered, and it is for a human unless both
\* calls were sure.
DraftsReviewed ==
  \A d \in Deliveries :
    /\ task[d].pc \in {"classified", "drafted"} => task[d].class \in classify_reply(task[d].mail)
    /\ task[d].pc = "drafted" =>
         /\ MayAutoReply(task[d].class)
         /\ task[d].draft.review \/ (task[d].draft.sure /\ task[d].class.sure)

\* What is settled is answered, lost, or will be shown.
SettledIsSeen ==
  \A d \in Deliveries :
    task[d].pc \in Settled => d \in answered \/ d \in dropped \/ task[d].show

PipelineInv ==
  /\ LeadTyped /\ TornOnlyByOverlap
  /\ task \in [Deliveries -> Tasks]
  /\ lock \in Deliveries \cup {NoDelivery}
  /\ answered \subseteq Deliveries
  /\ RowHeld /\ DraftsReviewed /\ SettledIsSeen

LEMMA WaitingIs == Waiting \in Tasks
BY DEF Waiting, Tasks, Pcs, Unqualified, LeadRow, LeadStatus, Statuses, NoClass, Classes, Replies,
       CannedReply

LEMMA NoUpdateIs == NoUpdate \in Updates
BY DEF NoUpdate, NoBody, Updates, Bodies, Unqualified, LeadRow, LeadStatus, Statuses

LEMMA EvaluatedIs ==
  ASSUME NEW status \in LeadStatus
  PROVE  /\ Evaluated(status) \in LeadRow
         /\ Evaluated(status) = Evaluated(Evaluated(status).status)
BY DEF Evaluated, LeadRow

\* A session that had read the row as it is leaves it as it set it; one that had not is noted
\* as stale, and so is one that unset the flag alone.
LEMMA SavedLead ==
  ASSUME lead \in LeadRow, stale \in BOOLEAN,
         NEW row \in LeadRow, NEW new \in LeadRow, NEW alone \in BOOLEAN,
         alone \/ stale \/ row # lead \/ new = Evaluated(new.status),
         SaveLead(row, new), stale' = (Overlapped(row) \/ alone)
  PROVE  lead' \in LeadRow /\ stale' \in BOOLEAN /\ TornOnlyByOverlap'
<1>1. /\ lead' = [status    |-> IF new.status # row.status THEN new.status ELSE lead.status,
                  qualified |-> IF new.qualified # row.qualified THEN new.qualified ELSE lead.qualified]
      /\ stale' = (stale \/ row # lead \/ alone)
  BY DEF SaveLead, Changed, Overlapped
<1>2. lead' \in LeadRow /\ stale' \in BOOLEAN
  BY <1>1 DEF LeadRow
<1>3. CASE row = lead
  <2>1. lead' = [status |-> new.status, qualified |-> new.qualified]
    BY <1>1, <1>3
  <2>2. lead' = new
    BY <2>1 DEF LeadRow
  <2> QED
    BY <1>1, <1>2, <1>3, <2>2 DEF TornOnlyByOverlap
<1>4. CASE row # lead
  BY <1>1, <1>2, <1>4 DEF TornOnlyByOverlap
<1> QED
  BY <1>3, <1>4

\* The verdict of a model call is saved with both columns.
LEMMA SavedVerdict ==
  ASSUME lead \in LeadRow, stale \in BOOLEAN, NEW row \in LeadRow, NEW status \in LeadStatus,
         SaveLead(row, Evaluated(status)), stale' = Overlapped(row)
  PROVE  lead' \in LeadRow /\ stale' \in BOOLEAN /\ TornOnlyByOverlap'
<1> DEFINE new == Evaluated(status)
<1>1. new \in LeadRow /\ new = Evaluated(new.status)
  BY EvaluatedIs
<1>2. SaveLead(row, new)
  OBVIOUS
<1>3. stale' = (Overlapped(row) \/ FALSE)
  BY DEF Overlapped
<1> HIDE DEF new
<1> QED
  BY <1>1, <1>2, <1>3, SavedLead

\* Whatever fields a body sets, the columns that agreed still do, unless it unset the flag and
\* had no later word on the status.
LEMMA AppliedIs ==
  ASSUME NEW o \in Bodies, NEW row \in LeadRow
  PROVE  /\ Applied(o, row) \in LeadRow
         /\ row = Evaluated(row.status) /\ ~UnsetsFlagAlone(o)
              => Applied(o, row) = Evaluated(Applied(o, row).status)
<1> DEFINE Agrees(r) == r = Evaluated(r.status)
           b == Booked(o, row)   f == Flagged(o, b)   r == Rejected(o, f)   s == Restated(o, r)
<1>0. /\ o.is_qualified \in {"unset", "yes", "no"}
      /\ o.qualification_status \in LeadStatus \cup {"unset"}
      /\ {"QUALIFIED", "DISQUALIFIED"} \subseteq LeadStatus
  BY DEF Bodies, LeadStatus, Statuses
<1>1. \A status \in LeadStatus : Evaluated(status) \in LeadRow /\ Agrees(Evaluated(status))
  BY EvaluatedIs
<1> HIDE DEF Agrees
<1>2. b \in LeadRow /\ (Agrees(row) => Agrees(b))
  BY <1>0, <1>1 DEF Booked
<1> HIDE DEF b
<1>3. f \in LeadRow /\ (Agrees(b) => Agrees(f) \/ o.is_qualified = "no")
  <2>1. [b EXCEPT !.qualified = FALSE] \in LeadRow
    BY <1>2 DEF LeadRow
  <2> QED
    BY <1>0, <1>1, <1>2, <2>1 DEF Flagged
<1> HIDE DEF f
<1>4. r \in LeadRow /\ (Agrees(f) => Agrees(r)) /\ (o.disqualified => Agrees(r))
  BY <1>0, <1>1, <1>3 DEF Rejected
<1> HIDE DEF r
<1>5. /\ s \in LeadRow /\ (Agrees(r) => Agrees(s))
      /\ o.qualification_status # "unset" => Agrees(s)
  BY <1>0, <1>1, <1>4 DEF Restated
<1>6. Applied(o, row) = s
  BY DEF Applied, s, r, f, b
<1> HIDE DEF s
<1>7. Agrees(row) /\ ~UnsetsFlagAlone(o) => Agrees(s)
  BY <1>2, <1>3, <1>4, <1>5 DEF UnsetsFlagAlone
<1> QED
  BY <1>5, <1>6, <1>7 DEF Agrees

LEMMA CountSet ==
  ASSUME NEW counts \in CountsType, NEW q \in BOOLEAN, NEW k \in Nat, NEW n \in Nat
  PROVE  /\ [counts EXCEPT !.read[q] = k] \in CountsType
         /\ [counts EXCEPT !.waiting = n, !.read[q] = k] \in CountsType
         /\ [counts EXCEPT !.read[q] = k, !.waiting = n] \in CountsType
<1>1. [counts.read EXCEPT ![q] = k] \in [BOOLEAN -> Nat]
  BY DEF CountsType
<1> QED
  BY <1>1 DEF CountsType

\* One write-back more that has read, or one fewer.
LEMMA ReadCounts ==
  ASSUME writeBacks \in CountsType, NEW q \in BOOLEAN, NEW n \in Nat
  PROVE  /\ [writeBacks EXCEPT !.waiting = n, !.read[q] = @ + 1] \in CountsType
         /\ writeBacks.read[q] > 0 =>
              /\ [writeBacks EXCEPT !.read[q] = @ - 1] \in CountsType
              /\ [writeBacks EXCEPT !.read[q] = @ - 1, !.waiting = n] \in CountsType
<1> DEFINE k == writeBacks.read[q]
<1>1. k \in Nat /\ k + 1 \in Nat /\ (k > 0 => k - 1 \in Nat)
  BY DEF CountsType
<1>2. /\ [writeBacks EXCEPT !.waiting = n, !.read[q] = k + 1] \in CountsType
      /\ k > 0 => /\ [writeBacks EXCEPT !.read[q] = k - 1] \in CountsType
                  /\ [writeBacks EXCEPT !.read[q] = k - 1, !.waiting = n] \in CountsType
  <2> HIDE DEF k
  <2> QED
    BY <1>1, CountSet
<1>3. [writeBacks EXCEPT !.waiting = n, !.read[q] = @ + 1]
        = [writeBacks EXCEPT !.waiting = n, !.read[q] = k + 1]
  BY DEF CountsType
<1> QED
  BY <1>2, <1>3

LEMMA Queued ==
  ASSUME writeBacks \in CountsType, QueueOrNot
  PROVE  writeBacks' \in CountsType
BY DEF QueueOrNot, Queue, CountsType

\* The requests and the write-back keep the lead's side of the invariant.
LEMMA OutcomeKeeps ==
  ASSUME LeadTyped, TornOnlyByOverlap, OutcomeNext
  PROVE  LeadTyped' /\ TornOnlyByOverlap' /\ UNCHANGED thread
<1>1. CASE trigger_lead_qualification
  <2>1. PICK s : /\ s \in evaluate_lead_qualification(title, Said(thread.messages),
                                                    Labelled(Last(thread.messages)))
                 /\ request' = [asked |-> TRUE, seen |-> lead, status |-> s]
    BY <1>1 DEF trigger_lead_qualification
  <2>2. s \in Statuses
    BY <2>1, VerdictIs
  <2> QED
    BY <1>1, <2>1, <2>2, OutcomeAssumption
    DEF trigger_lead_qualification, LeadTyped, TornOnlyByOverlap
<1>2. CASE qualification_answers
  <2>1. request.seen \in LeadRow /\ request.status \in LeadStatus
    BY DEF LeadTyped, LeadStatus
  <2>2. lead' \in LeadRow /\ stale' \in BOOLEAN /\ TornOnlyByOverlap'
    BY <1>2, <2>1, SavedVerdict DEF qualification_answers, LeadTyped
  <2>3. writeBacks' \in CountsType
    BY <1>2, Queued DEF qualification_answers, LeadTyped
  <2>4. request' \in [asked : BOOLEAN, seen : LeadRow, status : Statuses]
    BY <1>2 DEF qualification_answers, NoRequest, Unqualified, LeadRow, LeadStatus, Statuses
  <2> QED
    BY <1>2, <2>2, <2>3, <2>4 DEF qualification_answers, LeadTyped
<1>3. ASSUME NEW o \in Outcomes, update_lead_outcome(o)
      PROVE  LeadTyped' /\ TornOnlyByOverlap' /\ UNCHANGED thread
  <2>1. update' \in Updates
    BY <1>3, OutcomeAssumption DEF update_lead_outcome, LeadTyped, Updates
  <2> QED
    BY <1>3, <2>1, OutcomeAssumption DEF update_lead_outcome, LeadTyped, TornOnlyByOverlap
<1>4. CASE outcome_saved
  <2> DEFINE seen == update.seen   o == update.body   new == Applied(o, seen)
             alone == UnsetsFlagAlone(o)
  <2>1. seen \in LeadRow /\ o \in Bodies
    BY DEF LeadTyped, Updates
  <2>2. alone \in BOOLEAN
    BY DEF UnsetsFlagAlone
  <2>3. SaveLead(seen, new) /\ stale' = (Overlapped(seen) \/ alone)
    BY <1>4 DEF outcome_saved
  <2> HIDE DEF seen, o, alone
  <2>4. new \in LeadRow /\ (seen = Evaluated(seen.status) /\ ~alone => new = Evaluated(new.status))
    BY <2>1, AppliedIs DEF alone
  <2> HIDE DEF new
  <2>5. alone \/ stale \/ seen # lead \/ new = Evaluated(new.status)
    BY <2>2, <2>4 DEF LeadTyped, TornOnlyByOverlap
  <2>6. lead' \in LeadRow /\ stale' \in BOOLEAN /\ TornOnlyByOverlap'
    BY <2>1, <2>2, <2>3, <2>4, <2>5, SavedLead DEF LeadTyped
  <2>7. writeBacks' \in CountsType
    BY <1>4, Queued DEF outcome_saved, LeadTyped
  <2>8. update' \in Updates
    BY <1>4, NoUpdateIs DEF outcome_saved
  <2> QED
    BY <1>4, <2>6, <2>7, <2>8 DEF outcome_saved, LeadTyped
<1>5. CASE LoadOutcome
  <2>1. lead.qualified \in BOOLEAN /\ writeBacks \in CountsType /\ writeBacks.waiting - 1 \in Nat
    BY <1>5 DEF LoadOutcome, LeadTyped, LeadRow, CountsType
  <2>2. writeBacks' \in CountsType
    BY <1>5, <2>1, ReadCounts DEF LoadOutcome
  <2> QED
    BY <1>5, <2>2 DEF LoadOutcome, LeadTyped, TornOnlyByOverlap
<1>6. ASSUME NEW q \in BOOLEAN, TellCrm(q) \/ CrmFails(q)
      PROVE  LeadTyped' /\ TornOnlyByOverlap' /\ UNCHANGED thread
  <2>1. writeBacks' \in CountsType
    <3>1. writeBacks \in CountsType /\ writeBacks.waiting + 1 \in Nat /\ writeBacks.read[q] > 0
      BY <1>6 DEF TellCrm, CrmFails, LeadTyped, CountsType
    <3> QED
      BY <1>6, <3>1, ReadCounts DEF TellCrm, CrmFails, Drop
  <2> QED
    BY <1>6, <2>1 DEF TellCrm, CrmFails, LeadTyped, TornOnlyByOverlap
<1> QED
  BY <1>1, <1>2, <1>3, <1>4, <1>5, <1>6 DEF OutcomeNext

-----------------------------------------------------------------------------
(* The steps of a task.                                                      *)

LEMMA TaskIs ==
  ASSUME task \in [Deliveries -> Tasks], NEW d \in Deliveries
  PROVE  /\ task[d] \in Tasks
         /\ task[d].pc \in Pcs /\ task[d].mail \in Mails \cup {NoMail} /\ task[d].open \in BOOLEAN
         /\ task[d].seen \in LeadRow /\ task[d].class \in Classes /\ task[d].draft \in Replies
         /\ task[d].show \in BOOLEAN /\ task[d].status \in Statuses
BY DEF Tasks

\* A task's step leaves the tasks of other messages alone.
Alone(d) ==
  /\ task' \in [Deliveries -> Tasks]
  /\ \A e \in Deliveries : e # d => task'[e] = task[e]

\* What it may do to the row's lock.
Takes(d)  == lock = NoDelivery /\ lock' = d
GivesUp(d) == lock' = IF lock = d THEN NoDelivery ELSE lock

LEMMA RowHeldKept ==
  ASSUME RowHeld, lock \in Deliveries \cup {NoDelivery}, NEW d \in Deliveries, Alone(d),
         \/ UNCHANGED lock /\ task'[d].open = task[d].open
            /\ (task'[d].pc \in {"queued", "done", "dead"} => task[d].pc \in {"queued", "done", "dead"})
         \/ Takes(d) /\ task'[d].pc \notin {"queued", "done", "dead"}
         \/ GivesUp(d) /\ ~task'[d].open
  PROVE  RowHeld' /\ lock' \in Deliveries \cup {NoDelivery}
BY MailAssumption DEF RowHeld, Alone, Takes, GivesUp

\* A step of d that leaves the lead alone keeps the invariant if it keeps d's part of it.
LEMMA StepKeeps ==
  ASSUME PipelineInv, NEW d \in Deliveries, Alone(d),
         UNCHANGED <<lead, request, update, requests, writeBacks, told, stale>>,
         thread'.status \in {"OPEN", "REPLIED"},
         RowHeld', lock' \in Deliveries \cup {NoDelivery},
         answered \subseteq answered', answered' \subseteq Deliveries, dropped \subseteq dropped',
         task'[d].pc \in {"classified", "drafted"} => task'[d].class \in classify_reply(task'[d].mail),
         task'[d].pc = "drafted" =>
           /\ MayAutoReply(task'[d].class)
           /\ task'[d].draft.review \/ (task'[d].draft.sure /\ task'[d].class.sure),
         task'[d].pc \in Settled => d \in answered' \/ d \in dropped' \/ task'[d].show
  PROVE  PipelineInv'
<1>1. LeadTyped' /\ TornOnlyByOverlap'
  BY DEF PipelineInv, LeadTyped, TornOnlyByOverlap
<1>2. DraftsReviewed'
  BY DEF PipelineInv, DraftsReviewed, Alone
<1>3. SettledIsSeen'
  BY DEF PipelineInv, SettledIsSeen, Alone
<1> QED
  BY <1>1, <1>2, <1>3 DEF PipelineInv, Alone

LEMMA GotoIs ==
  ASSUME task \in [Deliveries -> Tasks], NEW d \in Deliveries, NEW pc \in Pcs, Goto(d, pc)
  PROVE  Alone(d) /\ task'[d] = [task[d] EXCEPT !.pc = pc]
<1>1. [task[d] EXCEPT !.pc = pc] \in Tasks
  BY TaskIs DEF Tasks
<1> QED
  BY <1>1 DEF Goto, Alone

LEMMA FinishIs ==
  ASSUME task \in [Deliveries -> Tasks], NEW d \in Deliveries, NEW pc \in {"done", "dead"},
         task' = [task EXCEPT ![d] = [Waiting EXCEPT !.pc = pc]]
  PROVE  Alone(d) /\ task'[d].pc = pc /\ ~task'[d].open
<1>1. [Waiting EXCEPT !.pc = pc] \in Tasks
  BY WaitingIs DEF Tasks, Pcs
<1>2. [Waiting EXCEPT !.pc = pc].pc = pc /\ ~[Waiting EXCEPT !.pc = pc].open
  BY DEF Waiting
<1> QED
  BY <1>1, <1>2 DEF Alone

LEMMA ToQualifyIs ==
  ASSUME task \in [Deliveries -> Tasks], NEW d \in Deliveries, NEW show \in BOOLEAN, ToQualify(d, show)
  PROVE  /\ Alone(d) /\ task'[d].pc = "qualifying" /\ task'[d].show = show
         /\ task'[d].open = task[d].open
<1> DEFINE mail == IF task[d].open THEN task[d].mail ELSE NoMail
           next == [task[d] EXCEPT !.pc = "qualifying", !.show = show, !.class = NoClass,
                                   !.draft = CannedReply, !.mail = mail]
<1>1. NoClass \in Classes /\ CannedReply \in Replies /\ mail \in Mails \cup {NoMail}
  BY TaskIs, RepliesAre DEF NoClass, Classes
<1>2. next \in Tasks /\ next.pc = "qualifying" /\ next.show = show /\ next.open = task[d].open
  <2> HIDE DEF mail
  <2> QED
    BY <1>1, TaskIs DEF Tasks, Pcs, Settled
<1>3. task' = [task EXCEPT ![d] = next]
  BY TaskIs DEF ToQualify, Tasks
<1> HIDE DEF next
<1> QED
  BY <1>2, <1>3 DEF Alone

LEMMA StatusAfterIs ==
  ASSUME LeadTyped, NEW d \in Deliveries
  PROVE  StatusAfter(d) \in {"OPEN", "REPLIED"}
BY DEF StatusAfter, LeadTyped

LEMMA TaskKeeps ==
  ASSUME PipelineInv, NEW d \in Deliveries, TaskStep(d) \/ Crash(d)
  PROVE  PipelineInv'
<1>0. /\ task \in [Deliveries -> Tasks] /\ lock \in Deliveries \cup {NoDelivery}
      /\ RowHeld /\ LeadTyped /\ answered \subseteq Deliveries
  BY DEF PipelineInv
<1>1. CASE Load(d)
  <2>1. PICK m \in Mails :
          task' = [task EXCEPT ![d].pc = "loaded", ![d].mail = m, ![d].seen = lead,
                               ![d].seenThread = thread.status]
    BY <1>1 DEF Load
  <2>2. /\ Alone(d) /\ task'[d].pc = "loaded" /\ task'[d].open = task[d].open
    <3> DEFINE next == [task[d] EXCEPT !.pc = "loaded", !.mail = m, !.seen = lead,
                                       !.seenThread = thread.status]
    <3>1. next \in Tasks /\ next.pc = "loaded" /\ next.open = task[d].open
      BY <1>0, TaskIs DEF Tasks, Pcs, LeadTyped
    <3>2. task' = [task EXCEPT ![d] = next]
      BY <1>0, <2>1
    <3> HIDE DEF next
    <3> QED
      BY <1>0, <3>1, <3>2 DEF Alone
  <2>3. UNCHANGED <<outcomeVars, lock, answered, dropped>>
    BY <1>1 DEF Load
  <2>4. RowHeld' /\ lock' \in Deliveries \cup {NoDelivery}
    BY <1>0, <2>2, <2>3, RowHeldKept
  <2> QED
    BY <1>0, <2>2, <2>3, <2>4, StepKeeps DEF Settled, outcomeVars, LeadTyped
<1>2. CASE Persist(d)
  <2>1. Alone(d) /\ task'[d].pc = "persisted"
    <3> DEFINE next == [task[d] EXCEPT !.pc = "persisted", !.open = TRUE]
    <3>1. next \in Tasks /\ next.pc = "persisted"
      BY <1>0, TaskIs DEF Tasks, Pcs
    <3>2. task' = [task EXCEPT ![d] = next]
      BY <1>0, <1>2 DEF Persist
    <3> HIDE DEF next
    <3> QED
      BY <1>0, <3>1, <3>2 DEF Alone
  <2>2. Takes(d) /\ UNCHANGED <<outcomeVars, answered, dropped>>
    BY <1>2 DEF Persist, Takes
  <2>3. RowHeld' /\ lock' \in Deliveries \cup {NoDelivery}
    BY <1>0, <2>1, <2>2, RowHeldKept
  <2> QED
    BY <1>0, <2>1, <2>2, <2>3, StepKeeps DEF Settled, outcomeVars, LeadTyped
<1>3. CASE SuppressOptOut(d) \/ EndEarly(d)
  <2>1. Finish(d) /\ CommitThread(d, StatusAfter(d), <<>>)
    BY <1>3 DEF SuppressOptOut, EndEarly
  <2>2. UNCHANGED <<lead, request, update, requests, writeBacks, told, stale, answered, dropped>>
    BY <1>3 DEF SuppressOptOut, EndEarly
  <2>3. Alone(d) /\ task'[d].pc = "done" /\ ~task'[d].open
    BY <1>0, <2>1, FinishIs DEF Finish
  <2>4. GivesUp(d) /\ thread'.status \in {"OPEN", "REPLIED"}
    BY <1>0, <2>1, StatusAfterIs DEF CommitThread, GivesUp
  <2>5. RowHeld' /\ lock' \in Deliveries \cup {NoDelivery}
    BY <1>0, <2>3, <2>4, RowHeldKept
  <2> QED
    BY <1>0, <2>2, <2>3, <2>4, <2>5, StepKeeps DEF Settled
<1>4. CASE ClassifyIntent(d)
  <2>1. PICK c \in classify_reply(task[d].mail) :
          task' = [task EXCEPT ![d].pc = "classified", ![d].class = c]
    BY <1>4 DEF ClassifyIntent
  <2>2. /\ Alone(d) /\ task'[d].pc = "classified" /\ task'[d].open = task[d].open
        /\ task'[d].class = c /\ task'[d].mail = task[d].mail
    <3> DEFINE next == [task[d] EXCEPT !.pc = "classified", !.class = c]
    <3>1. c \in Classes
      BY ClassifiedIs
    <3>2. /\ next \in Tasks /\ next.pc = "classified" /\ next.open = task[d].open
          /\ next.class = c /\ next.mail = task[d].mail
      BY <1>0, <3>1, TaskIs DEF Tasks, Pcs
    <3>3. task' = [task EXCEPT ![d] = next]
      BY <1>0, <2>1
    <3> HIDE DEF next
    <3> QED
      BY <1>0, <3>2, <3>3 DEF Alone
  <2>3. UNCHANGED <<outcomeVars, lock, answered, dropped>>
    BY <1>4 DEF ClassifyIntent
  <2>4. RowHeld' /\ lock' \in Deliveries \cup {NoDelivery}
    BY <1>0, <2>2, <2>3, RowHeldKept
  <2> QED
    BY <1>0, <2>1, <2>2, <2>3, <2>4, StepKeeps DEF Settled, outcomeVars, LeadTyped
<1>5. CASE DraftReply(d)
  <2>1. PICK r \in generate_structured(LiveReplies, CannedReply) :
          task' = [task EXCEPT ![d].pc = "drafted", ![d].open = FALSE,
                               ![d].draft = Reviewed(task[d].class, r)]
    BY <1>5 DEF DraftReply
  <2> DEFINE draft == Reviewed(task[d].class, r)
  <2>2. draft \in Replies /\ (draft.review \/ (draft.sure /\ task[d].class.sure))
    <3>1. r \in Replies
      BY RepliesAre
    <3> QED
      BY <3>1 DEF Reviewed, Replies
  <2> HIDE DEF draft
  <2>3. /\ Alone(d) /\ task'[d].pc = "drafted" /\ ~task'[d].open /\ task'[d].draft = draft
        /\ task'[d].class = task[d].class /\ task'[d].mail = task[d].mail
    <3> DEFINE next == [task[d] EXCEPT !.pc = "drafted", !.open = FALSE, !.draft = draft]
    <3>1. /\ next \in Tasks /\ next.pc = "drafted" /\ ~next.open /\ next.draft = draft
          /\ next.class = task[d].class /\ next.mail = task[d].mail
      BY <1>0, <2>2, TaskIs DEF Tasks, Pcs
    <3>2. task' = [task EXCEPT ![d] = next]
      BY <1>0, <2>1 DEF draft
    <3> HIDE DEF next
    <3> QED
      BY <1>0, <3>1, <3>2 DEF Alone
  <2>4. /\ UNCHANGED <<lead, request, update, requests, writeBacks, told, stale, answered, dropped>>
        /\ task[d].class \in classify_reply(task[d].mail) /\ MayAutoReply(task[d].class)
    BY <1>5 DEF DraftReply, Goes, At, PipelineInv, DraftsReviewed
  <2>5. GivesUp(d) /\ thread'.status \in {"OPEN", "REPLIED"}
    BY <1>0, <1>5, StatusAfterIs DEF DraftReply, CommitThread, GivesUp
  <2>6. RowHeld' /\ lock' \in Deliveries \cup {NoDelivery}
    BY <1>0, <2>3, <2>5, RowHeldKept
  <2> QED
    BY <1>0, <2>2, <2>3, <2>4, <2>5, <2>6, StepKeeps DEF Settled
<1>6. CASE HoldReply(d) \/ KeepDraft(d) \/ AutoSendFails(d)
  <2>1. PICK show \in BOOLEAN : ToQualify(d, show) /\ (show \/ d \in dropped')
    BY <1>6 DEF HoldReply, KeepDraft, AutoSendFails
  <2>2. UNCHANGED <<outcomeVars, lock, answered>> /\ dropped \subseteq dropped'
    BY <1>6 DEF HoldReply, KeepDraft, AutoSendFails
  <2>3. /\ Alone(d) /\ task'[d].pc = "qualifying" /\ task'[d].show = show
        /\ task'[d].open = task[d].open
    BY <1>0, <2>1, ToQualifyIs
  <2>4. RowHeld' /\ lock' \in Deliveries \cup {NoDelivery}
    BY <1>0, <2>2, <2>3, RowHeldKept
  <2> QED
    BY <1>0, <2>1, <2>2, <2>3, <2>4, StepKeeps DEF outcomeVars, LeadTyped
<1>7. CASE AutoSend(d)
  <2>1. /\ ToQualify(d, FALSE) /\ lock = NoDelivery /\ answered' = answered \cup {d}
        /\ UNCHANGED <<lead, request, update, requests, writeBacks, told, stale, dropped>>
    BY <1>7 DEF AutoSend
  <2>2. /\ Alone(d) /\ task'[d].pc = "qualifying" /\ task'[d].open = task[d].open
    BY <1>0, <2>1, ToQualifyIs
  <2>3. lock' = lock /\ thread'.status \in {"OPEN", "REPLIED"}
    BY <1>0, <1>7, <2>1, StatusAfterIs, MailAssumption DEF AutoSend, CommitThread
  <2>4. RowHeld' /\ lock' \in Deliveries \cup {NoDelivery}
    BY <1>0, <2>2, <2>3, RowHeldKept
  <2> QED
    BY <1>0, <2>1, <2>2, <2>3, <2>4, StepKeeps
<1>8. CASE Qualify(d)
  <2>1. PICK s : /\ s \in evaluate_lead_qualification(title, Said(History(d)), LatestInbound(History(d)))
                 /\ task' = [task EXCEPT ![d].pc = "judged", ![d].status = s]
    BY <1>8 DEF Qualify
  <2>2. /\ Alone(d) /\ task'[d].pc = "judged" /\ task'[d].open = task[d].open
        /\ task'[d].show = task[d].show
    <3> DEFINE next == [task[d] EXCEPT !.pc = "judged", !.status = s]
    <3>1. s \in Statuses
      BY <2>1, VerdictIs
    <3>2. /\ next \in Tasks /\ next.pc = "judged" /\ next.open = task[d].open
          /\ next.show = task[d].show
      BY <1>0, <3>1, TaskIs DEF Tasks, Pcs, Settled
    <3>3. task' = [task EXCEPT ![d] = next]
      BY <1>0, <2>1
    <3> HIDE DEF next
    <3> QED
      BY <1>0, <3>2, <3>3 DEF Alone
  <2>3. UNCHANGED <<outcomeVars, lock, answered, dropped>> /\ task[d].pc \in Settled
    BY <1>8 DEF Qualify, At, Settled
  <2>4. RowHeld' /\ lock' \in Deliveries \cup {NoDelivery}
    BY <1>0, <2>2, <2>3, RowHeldKept
  <2> QED
    BY <1>0, <2>2, <2>3, <2>4, StepKeeps DEF outcomeVars, LeadTyped, PipelineInv, SettledIsSeen
<1>9. CASE FlushVerdict(d) \/ QueueWriteBack(d)
  <2>1. PICK pc \in {"saving", "queued_back"} : Goto(d, pc)
    BY <1>9 DEF FlushVerdict, QueueWriteBack
  <2>2. /\ Alone(d) /\ task'[d].pc \in {"saving", "queued_back"} /\ task'[d].open = task[d].open
        /\ task'[d].show = task[d].show
    <3>1. Alone(d) /\ task'[d] = [task[d] EXCEPT !.pc = pc]
      BY <1>0, <2>1, GotoIs DEF Pcs, Settled
    <3> QED
      BY <1>0, <3>1, TaskIs DEF Tasks
  <2>3. UNCHANGED <<lead, title, thread, request, update, requests, told, stale, answered, dropped>>
    BY <1>9 DEF FlushVerdict, QueueWriteBack, outcomeVars
  <2>4. task[d].pc \in Settled
    BY <1>9 DEF FlushVerdict, QueueWriteBack, At, Settled
  <2>5. lock' = lock \/ Takes(d)
    BY <1>9 DEF FlushVerdict, QueueWriteBack, Takes
  <2>6. RowHeld' /\ lock' \in Deliveries \cup {NoDelivery}
    BY <1>0, <2>2, <2>5, RowHeldKept
  <2>7. writeBacks' \in CountsType
    BY <1>0, <1>9, Queued DEF FlushVerdict, QueueWriteBack, outcomeVars, LeadTyped
  <2>8. LeadTyped' /\ TornOnlyByOverlap'
    BY <2>3, <2>7 DEF PipelineInv, LeadTyped, TornOnlyByOverlap
  <2>9. DraftsReviewed' /\ SettledIsSeen'
    BY <2>2, <2>3, <2>4 DEF PipelineInv, DraftsReviewed, SettledIsSeen, Alone
  <2> QED
    BY <1>0, <2>2, <2>3, <2>6, <2>8, <2>9 DEF PipelineInv, Alone
<1>10. CASE SaveOutcome(d)
  <2>1. /\ SaveLead(task[d].seen, Evaluated(task[d].status)) /\ Finish(d)
        /\ CommitThread(d, IF task[d].show THEN "OPEN" ELSE StatusAfter(d), <<>>)
        /\ stale' = Overlapped(task[d].seen)
        /\ UNCHANGED <<title, request, update, requests, writeBacks, told, answered, dropped>>
    BY <1>10 DEF SaveOutcome
  <2>2. lead' \in LeadRow /\ stale' \in BOOLEAN /\ TornOnlyByOverlap'
    <3>1. task[d].seen \in LeadRow /\ task[d].status \in LeadStatus
      BY <1>0, TaskIs DEF LeadStatus
    <3> QED
      BY <2>1, <3>1, SavedVerdict DEF PipelineInv, LeadTyped
  <2>3. GivesUp(d) /\ thread'.status \in {"OPEN", "REPLIED"}
    BY <1>0, <2>1, StatusAfterIs DEF CommitThread, GivesUp
  <2>4. Alone(d) /\ task'[d].pc = "done" /\ ~task'[d].open
    BY <1>0, <2>1, FinishIs DEF Finish
  <2>5. RowHeld' /\ lock' \in Deliveries \cup {NoDelivery}
    BY <1>0, <2>3, <2>4, RowHeldKept
  <2>6. LeadTyped'
    BY <2>1, <2>2, <2>3 DEF PipelineInv, LeadTyped
  <2>7. DraftsReviewed' /\ SettledIsSeen'
    BY <2>1, <2>4 DEF PipelineInv, DraftsReviewed, SettledIsSeen, Alone, Settled
  <2> QED
    BY <1>0, <2>1, <2>2, <2>4, <2>5, <2>6, <2>7 DEF PipelineInv, Alone
<1>11. CASE Crash(d)
  <2>1. /\ task' = [task EXCEPT ![d] = [Waiting EXCEPT !.pc = "dead"]]
        /\ GivesUp(d) /\ UNCHANGED <<outcomeVars, answered, dropped>>
    BY <1>11 DEF Crash, GivesUp
  <2>2. Alone(d) /\ task'[d].pc = "dead" /\ ~task'[d].open
    BY <1>0, <2>1, FinishIs
  <2>3. RowHeld' /\ lock' \in Deliveries \cup {NoDelivery}
    BY <1>0, <2>1, <2>2, RowHeldKept
  <2> QED
    BY <1>0, <2>1, <2>2, <2>3, StepKeeps DEF Settled, outcomeVars, LeadTyped
<1> QED
  BY <1>1, <1>2, <1>3, <1>4, <1>5, <1>6, <1>7, <1>8, <1>9, <1>10, <1>11 DEF TaskStep

LEMMA PipelineInvInit == ReplyInit => PipelineInv
<1> SUFFICES ASSUME ReplyInit PROVE PipelineInv
  OBVIOUS
<1>1. LeadTyped /\ TornOnlyByOverlap
  <2>1. Unqualified \in LeadRow /\ Unqualified = Evaluated(Unqualified.status)
    BY DEF Unqualified, LeadRow, LeadStatus, Statuses, Evaluated
  <2>2. NoRequest \in [asked : BOOLEAN, seen : LeadRow, status : Statuses]
    BY <2>1 DEF NoRequest, Statuses
  <2>3. lead = Unqualified /\ request = NoRequest /\ update = NoUpdate /\ requests = 0 /\ told = "nothing" /\ stale = FALSE
    BY DEF ReplyInit, OutcomeInit
  <2>4. writeBacks \in CountsType
    BY DEF ReplyInit, OutcomeInit, CountsType
  <2>5. thread.status = "OPEN"
    <3>1. PICK marks : thread = [status |-> "OPEN", messages |-> <<[from |-> "SDR", marks |-> marks]>>]
      BY DEF ReplyInit, OutcomeInit
    <3> QED
      BY <3>1
  <2>6. lead \in LeadRow /\ request \in [asked : BOOLEAN, seen : LeadRow, status : Statuses]
    BY <2>1, <2>2, <2>3
  <2>7. requests \in 0 .. MaxRequests
    BY <2>3, OutcomeAssumption
  <2>8. lead = Evaluated(lead.status)
    BY <2>1, <2>3
  <2>9. update \in Updates
    BY <2>3, NoUpdateIs
  <2>10. stale \in BOOLEAN /\ told \in {"nothing", "QUALIFIED", "IN_PROGRESS"}
    BY <2>3
  <2> QED
    BY <2>4, <2>5, <2>6, <2>7, <2>8, <2>9, <2>10 DEF LeadTyped, TornOnlyByOverlap
<1>2. task \in [Deliveries -> Tasks] /\ lock \in Deliveries \cup {NoDelivery} /\ answered \subseteq Deliveries
  BY WaitingIs DEF ReplyInit
<1>3. \A d \in Deliveries : task[d].pc = "queued" /\ ~task[d].open
  BY DEF ReplyInit, Waiting
<1>4. RowHeld /\ DraftsReviewed /\ SettledIsSeen
  BY <1>3, MailAssumption DEF ReplyInit, RowHeld, DraftsReviewed, SettledIsSeen, Settled
<1> QED
  BY <1>1, <1>2, <1>4 DEF PipelineInv

\* The requests, and a step that changes nothing, leave the tasks' side of the invariant.
LEMMA TasksUntouched ==
  ASSUME PipelineInv, LeadTyped', TornOnlyByOverlap', UNCHANGED replyVars
  PROVE  PipelineInv'
<1>1. task' = task /\ lock' = lock /\ answered' = answered /\ dropped' = dropped
  BY DEF replyVars
<1> QED
  BY <1>1 DEF PipelineInv, RowHeld, DraftsReviewed, SettledIsSeen

LEMMA PipelineInvStep == PipelineInv /\ [ReplyNext]_vars => PipelineInv'
<1> SUFFICES ASSUME PipelineInv, [ReplyNext]_vars PROVE PipelineInv'
  OBVIOUS
<1>1. ASSUME NEW d \in Deliveries, TaskStep(d) \/ Crash(d) PROVE PipelineInv'
  BY <1>1, TaskKeeps
<1>2. CASE OutcomeNext /\ UNCHANGED replyVars
  <2>1. LeadTyped' /\ TornOnlyByOverlap'
    BY <1>2, OutcomeKeeps DEF PipelineInv
  <2> QED
    BY <1>2, <2>1, TasksUntouched
<1>3. CASE UNCHANGED vars
  <2>1. LeadTyped' /\ TornOnlyByOverlap'
    BY <1>3 DEF vars, outcomeVars, PipelineInv, LeadTyped, TornOnlyByOverlap
  <2> QED
    BY <1>3, <2>1, TasksUntouched DEF vars
<1> QED
  BY <1>1, <1>2, <1>3 DEF ReplyNext

\* The parts of the argument together: types, the row's holder, what a draft rests on and what
\* becomes of a message that is settled.
THEOREM PipelineInvHolds == ReplySpec => []PipelineInv
BY PipelineInvInit, PipelineInvStep, PTL DEF ReplySpec

-----------------------------------------------------------------------------
(* What follows.                                                             *)

\* Every variable keeps to its kind, and a message that is flushed and not committed holds the
\* thread's row: no two tasks have one at a time.
THEOREM ReplyTypeCorrect == ReplySpec => []ReplyTypeOK
<1>1. PipelineInv => ReplyTypeOK
  <2> SUFFICES ASSUME PipelineInv PROVE ReplyTypeOK
    OBVIOUS
  <2>1. \A d \in Deliveries : task[d].mail \in Mails \cup {NoMail}
    BY TaskIs DEF PipelineInv
  <2>2. writeBacks.waiting \in Nat /\ \A b \in BOOLEAN : writeBacks.read[b] \in Nat
    BY DEF PipelineInv, LeadTyped, CountsType
  <2> QED
    BY <2>1, <2>2 DEF PipelineInv, LeadTyped, RowHeld, ReplyTypeOK
<1> QED
  BY <1>1, PipelineInvHolds, PTL

\* is_qualified disagrees with qualification_status only after a session has saved over a row
\* that another had changed since it read it, or a request has unset the flag and had no later
\* word on the status, whatever fields the requests of a run set.
THEOREM TornOnlyByOverlapHolds == ReplySpec => []TornOnlyByOverlap
<1>1. PipelineInv => TornOnlyByOverlap
  BY DEF PipelineInv
<1> QED
  BY <1>1, PipelineInvHolds, PTL

\* A message becomes answered by the step that sends its answer.
LEMMA AnsweredBy ==
  ASSUME [ReplyNext]_vars, NEW d \in Deliveries, d \in answered', d \notin answered
  PROVE  AutoSend(d)
<1>1. ASSUME NEW e \in Deliveries, TaskStep(e) \/ Crash(e) PROVE AutoSend(d)
  <2>1. UNCHANGED answered \/ AutoSend(e)
    BY <1>1 DEF TaskStep, Crash, Load, Persist, SuppressOptOut, ClassifyIntent, EndEarly, HoldReply,
                DraftReply, KeepDraft, AutoSendFails, Qualify, FlushVerdict, QueueWriteBack, SaveOutcome
  <2>2. AutoSend(e) => answered' = answered \cup {e}
    BY DEF AutoSend
  <2> QED
    BY <2>1, <2>2
<1>2. CASE (OutcomeNext /\ UNCHANGED replyVars) \/ UNCHANGED vars
  BY <1>2 DEF vars, replyVars
<1> QED
  BY <1>1, <1>2 DEF ReplyNext

\* An automatic answer goes to no opt-out in the subject or above the quote, and only where
\* both model calls were sure and neither asked for a human.
THEOREM OnlySureAnswersHolds == ReplySpec => OnlySureAnswers
<1> DEFINE Sure(d) ==
      LET c == task[d].class  r == task[d].draft
      IN /\ ~is_opt_out(FullText(task[d].mail)) /\ c.intent \in CanAutoReply
         /\ c.sure /\ r.sure /\ ~c.review /\ ~r.review
<1>1. ASSUME PipelineInv, [ReplyNext]_vars, NEW d \in answered' \ answered, PipelineInv'
      PROVE  Sure(d)
  <2>1. d \in Deliveries
    BY <1>1 DEF PipelineInv
  <2>2. AutoSend(d)
    BY <1>1, <2>1, AnsweredBy
  <2>3. task[d].pc = "drafted" /\ ~task[d].draft.review
    BY <2>2 DEF AutoSend, At
  <2>4. /\ task[d].class \in classify_reply(task[d].mail) /\ MayAutoReply(task[d].class)
        /\ task[d].draft.sure /\ task[d].class.sure
    BY <1>1, <2>1, <2>3 DEF PipelineInv, DraftsReviewed
  <2>5. task[d].class.intent \in CanAutoReply /\ ~task[d].class.review
    BY <2>4 DEF MayAutoReply
  <2>6. ~is_opt_out(FullText(task[d].mail))
    BY <2>4, <2>5, ClassifiedIs DEF CanAutoReply
  <2> QED
    BY <2>3, <2>4, <2>5, <2>6
<1>2. PipelineInv /\ PipelineInv' /\ [ReplyNext]_vars
        => [\A d \in answered' \ answered : Sure(d)]_vars
  BY <1>1
<1> QED
  BY <1>2, PipelineInvHolds, PTL DEF ReplySpec, OnlySureAnswers

\* A step of one task leaves the others' as they were.
LEMMA OthersStay ==
  ASSUME NEW e \in Deliveries, TaskStep(e) \/ Crash(e), NEW d \in Deliveries, d # e,
         task \in [Deliveries -> Tasks]
  PROVE  task'[d] = task[d]
<1>1. CASE Load(e) \/ Persist(e)
  BY <1>1 DEF Load, Persist
<1>2. CASE SuppressOptOut(e) \/ EndEarly(e) \/ SaveOutcome(e)
  BY <1>2 DEF SuppressOptOut, EndEarly, SaveOutcome, Finish
<1>3. CASE ClassifyIntent(e) \/ DraftReply(e)
  BY <1>3 DEF ClassifyIntent, DraftReply
<1>4. CASE HoldReply(e) \/ KeepDraft(e) \/ AutoSend(e) \/ AutoSendFails(e)
  BY <1>4 DEF HoldReply, KeepDraft, AutoSend, AutoSendFails, ToQualify
<1>5. CASE Qualify(e) \/ FlushVerdict(e) \/ QueueWriteBack(e)
  BY <1>5 DEF Qualify, FlushVerdict, QueueWriteBack, Goto
<1>6. CASE Crash(e)
  BY <1>6 DEF Crash
<1> QED
  BY <1>1, <1>2, <1>3, <1>4, <1>5, <1>6 DEF TaskStep

\* Of a task's own steps only the last ends it from where its verdict is saved.
LEMMA SavedBy ==
  ASSUME NEW d \in Deliveries, TaskStep(d) \/ Crash(d), Saves(d), task \in [Deliveries -> Tasks]
  PROVE  SaveOutcome(d)
<1>1. task[d].pc \in {"saving", "queued_back"} /\ task'[d].pc = "done"
  BY DEF Saves
<1>2. \/ Crash(d) \/ QueueWriteBack(d) \/ SaveOutcome(d)
  BY <1>1 DEF TaskStep, At, Goes, Load, Persist, SuppressOptOut, ClassifyIntent, EndEarly, HoldReply,
              DraftReply, KeepDraft, AutoSend, AutoSendFails, Qualify, FlushVerdict
<1>3. CASE Crash(d)
  BY <1>1, <1>3, FinishIs DEF Crash
<1>4. CASE QueueWriteBack(d)
  BY <1>1, <1>4, GotoIs DEF QueueWriteBack, Pcs, Settled, Goto, Tasks
<1> QED
  BY <1>2, <1>3, <1>4

\* A message processed to the end is answered, or its thread is left open for a human, or no
\* mailbox could take its answer.
THEOREM UnansweredIsShownHolds == ReplySpec => UnansweredIsShown
<1> DEFINE Seen(d) == Saves(d) => d \in answered \/ thread'.status = "OPEN" \/ d \in dropped
<1>1. ASSUME PipelineInv, [ReplyNext]_vars, NEW d \in Deliveries, Saves(d)
      PROVE  d \in answered \/ thread'.status = "OPEN" \/ d \in dropped
  <2>0. task \in [Deliveries -> Tasks] /\ task'[d] # task[d]
    BY <1>1 DEF PipelineInv, Saves
  <2>1. PICK e \in Deliveries : TaskStep(e) \/ Crash(e)
    BY <1>1, <2>0 DEF ReplyNext, vars, replyVars
  <2>2. e = d
    BY <2>0, <2>1, OthersStay
  <2>3. SaveOutcome(d)
    BY <1>1, <2>0, <2>1, <2>2, SavedBy
  <2>4. task[d].show => thread'.status = "OPEN"
    BY <2>3 DEF SaveOutcome, CommitThread
  <2>5. d \in answered \/ d \in dropped \/ task[d].show
    BY <1>1 DEF PipelineInv, SettledIsSeen, Saves, Settled
  <2> QED
    BY <2>4, <2>5
<1>2. PipelineInv /\ [ReplyNext]_vars => [\A d \in Deliveries : Seen(d)]_vars
  BY <1>1
<1> QED
  BY <1>2, PipelineInvHolds, PTL DEF ReplySpec, UnansweredIsShown

=============================================================================
