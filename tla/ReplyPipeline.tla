----------------------------- MODULE ReplyPipeline -----------------------------
(***************************************************************************)
(* What process_inbound_email_task does with a prospect's message after it  *)
(* is known not to be a duplicate: suppress, ignore, halt, answer or hold   *)
(* it, then qualify the lead and have the CRM told.  The lead has one       *)
(* thread and is enrolled in no campaign; InboundTask models the task's     *)
(* work on enrollments and its duplicate check, SendService the dispatch of *)
(* the answer.  Two messages of a lead may be processed at once.            *)
(***************************************************************************)
EXTENDS LeadOutcome

CONSTANTS
  Deliveries,  \* the messages of a run
  Mails,       \* what a message may be: marks of its subject, above and below a quote
  NoDelivery

ASSUME MailAssumption == NoDelivery \notin Deliveries

VARIABLES
  task,        \* each message's task
  lock,        \* the task whose open transaction has updated the thread's row
  suppressed,  \* the lead is in suppression_list, opted out and not to be contacted
  answered,    \* the messages whose answer a provider has accepted
  dropped      \* the messages whose answer no mailbox could take

replyVars == <<task, lock, suppressed, answered, dropped>>
vars == <<outcomeVars, replyVars>>

NoMail == [subject |-> {}, above |-> {}, below |-> {}]
NoClass == [intent |-> "none", sure |-> FALSE, review |-> TRUE]

Waiting ==
  [pc |-> "queued", mail |-> NoMail, open |-> FALSE, seen |-> Unqualified, seenThread |-> "OPEN",
   class |-> NoClass, draft |-> CannedReply, show |-> FALSE,
   status |-> "UNQUALIFIED"]

ReplyInit ==
  /\ OutcomeInit
  /\ task = [d \in Deliveries |-> Waiting]
  /\ lock = NoDelivery
  /\ suppressed = FALSE
  /\ answered = {}
  /\ dropped = {}

-----------------------------------------------------------------------------

At(d, pc) == task[d].pc = pc

Goto(d, pc) == task' = [task EXCEPT ![d].pc = pc]

\* The answer is settled: what it was decided on is needed no more.
ToQualify(d, show) ==
  task' = [task EXCEPT ![d].pc = "qualifying", ![d].show = show,
                       ![d].class = NoClass, ![d].draft = CannedReply,
                       ![d].mail = IF task[d].open THEN @ ELSE NoMail]

Finish(d) == task' = [task EXCEPT ![d] = [Waiting EXCEPT !.pc = "done"]]

Inbound(d) == [from |-> "Prospect", marks |-> Kept(task[d].mail)]
Outbound(marks) == [from |-> "SDR", marks |-> marks]

\* The thread's messages as the task's own session reads them.
History(d) ==
  IF task[d].open THEN Append(thread.messages, Inbound(d)) ELSE thread.messages

LatestInbound(messages) ==
  LET own == SelectSeq(messages, LAMBDA m : m.from = "Prospect") IN Last(own).marks

\* The status as a commit leaves it: REPLIED is written by the commit that files the message,
\* and only if the thread was loaded with another status; OPEN by the last.
StatusAfter(d) ==
  IF task[d].open /\ task[d].seenThread # "REPLIED" THEN "REPLIED" ELSE thread.status

\* A commit writes the thread and what it holds, and gives up the thread's row.
CommitThread(d, status, more) ==
  /\ thread' = [status |-> status, messages |-> History(d) \o more]
  /\ lock' = IF lock = d THEN NoDelivery ELSE lock

-----------------------------------------------------------------------------

\* The task loads the lead and its thread.
Load(d) ==
  /\ At(d, "queued")
  /\ \E m \in Mails :
       task' = [task EXCEPT ![d].pc = "loaded", ![d].mail = m, ![d].seen = lead,
                            ![d].seenThread = thread.status]
  /\ UNCHANGED <<outcomeVars, lock, suppressed, answered, dropped>>

\* The message and the thread's new status are flushed: the row is locked until a commit.
Persist(d) ==
  /\ At(d, "loaded") /\ lock = NoDelivery
  /\ lock' = d
  /\ task' = [task EXCEPT ![d].pc = "persisted", ![d].open = TRUE]
  /\ UNCHANGED <<outcomeVars, suppressed, answered, dropped>>

SuppressOptOut(d) ==
  /\ At(d, "persisted") /\ is_opt_out(Kept(task[d].mail))
  /\ suppressed' = TRUE
  /\ CommitThread(d, StatusAfter(d), <<>>)
  /\ Finish(d)
  /\ UNCHANGED <<lead, title, request, update, requests, writeBacks, told, stale, answered, dropped>>

ClassifyIntent(d) ==
  /\ At(d, "persisted") /\ ~is_opt_out(Kept(task[d].mail))
  /\ \E c \in classify_reply(task[d].mail) :
       task' = [task EXCEPT ![d].pc = "classified", ![d].class = c]
  /\ UNCHANGED <<outcomeVars, lock, suppressed, answered, dropped>>

\* An auto-reply leaves everything as it is, a polite no would end the sequences.
EndEarly(d) ==
  /\ At(d, "classified") /\ task[d].class.intent \in {"AUTO_REPLY", "NOT_INTERESTED"}
  /\ CommitThread(d, StatusAfter(d), <<>>)
  /\ Finish(d)
  /\ UNCHANGED <<lead, title, request, update, requests, writeBacks, told, stale, suppressed, answered, dropped>>

Goes(d) == At(d, "classified") /\ task[d].class.intent \notin {"AUTO_REPLY", "NOT_INTERESTED"}

MayAutoReply(c) == c.intent \in CanAutoReply /\ ~c.review

\* A placeholder instead of a draft; nothing is committed yet.
HoldReply(d) ==
  /\ Goes(d) /\ ~MayAutoReply(task[d].class)
  /\ ToQualify(d, TRUE)
  /\ UNCHANGED <<outcomeVars, lock, suppressed, answered, dropped>>

Reviewed(c, r) == [r EXCEPT !.review = @ \/ ~r.sure \/ ~c.sure]

\* generate_grounded_reply, whose audit event is committed with the message.
DraftReply(d) ==
  /\ Goes(d) /\ MayAutoReply(task[d].class)
  /\ \E r \in generate_structured(LiveReplies, CannedReply) :
       task' = [task EXCEPT ![d].pc = "drafted", ![d].open = FALSE,
                            ![d].draft = Reviewed(task[d].class, r)]
  /\ CommitThread(d, StatusAfter(d), <<>>)
  /\ UNCHANGED <<lead, title, request, update, requests, writeBacks, told, stale, suppressed, answered, dropped>>

\* The draft is for a human, or no healthy mailbox has sends left today.
KeepDraft(d) ==
  /\ At(d, "drafted")
  /\ \/ task[d].draft.review /\ ToQualify(d, TRUE) /\ UNCHANGED dropped
     \/ /\ ~task[d].draft.review /\ "mailbox" \in Faults
        /\ ToQualify(d, FALSE)
        /\ dropped' = dropped \cup {d}
  /\ UNCHANGED <<outcomeVars, lock, suppressed, answered>>

\* dispatch_email commits the answer; it refuses a suppressed recipient.
AutoSend(d) ==
  /\ At(d, "drafted") /\ ~task[d].draft.review /\ ~suppressed
  /\ lock = NoDelivery
  /\ answered' = answered \cup {d}
  /\ CommitThread(d, StatusAfter(d), <<Outbound(task[d].draft.marks)>>)
  /\ ToQualify(d, FALSE)
  /\ UNCHANGED <<lead, title, request, update, requests, writeBacks, told, stale, suppressed, dropped>>

\* A faulty handler that logs a failed answer and nothing else.
LogFailure(d) ==
  /\ At(d, "drafted") /\ ~task[d].draft.review
  /\ suppressed \/ "provider" \in Faults
  /\ ToQualify(d, FALSE)
  /\ UNCHANGED <<outcomeVars, lock, suppressed, answered, dropped>>

AutoSendFails(d) ==
  /\ At(d, "drafted") /\ ~task[d].draft.review
  /\ suppressed \/ "provider" \in Faults
  /\ ToQualify(d, TRUE)
  /\ UNCHANGED <<outcomeVars, lock, suppressed, answered, dropped>>

\* The verdict on the conversation so far, our own messages included.
Qualify(d) ==
  /\ At(d, "qualifying")
  /\ \E s \in evaluate_lead_qualification(title, Said(History(d)), LatestInbound(History(d))) :
       task' = [task EXCEPT ![d].pc = "judged", ![d].status = s]
  /\ UNCHANGED <<outcomeVars, lock, suppressed, answered, dropped>>

\* The audit event is flushed, and with it the thread's new status: that locks its row.
FlushVerdict(d) ==
  /\ At(d, "judged")
  /\ IF task[d].show
     THEN lock \in {d, NoDelivery} /\ lock' = d
     ELSE UNCHANGED lock
  /\ Goto(d, "saving")
  /\ UNCHANGED <<outcomeVars, suppressed, answered, dropped>>

\* A qualified lead's write-back is queued, then everything is committed.
QueueWriteBack(d) ==
  /\ At(d, "saving") /\ task[d].status = "QUALIFIED"
  /\ QueueOrNot
  /\ Goto(d, "queued_back")
  /\ UNCHANGED <<lead, title, thread, request, update, requests, told, stale, lock, suppressed, answered, dropped>>

SaveOutcome(d) ==
  /\ \/ At(d, "saving") /\ task[d].status # "QUALIFIED"
     \/ At(d, "queued_back")
  /\ SaveLead(task[d].seen, Evaluated(task[d].status))
  /\ stale' = Overlapped(task[d].seen)
  /\ CommitThread(d, IF task[d].show THEN "OPEN" ELSE StatusAfter(d), <<>>)
  /\ Finish(d)
  /\ UNCHANGED <<title, request, update, requests, writeBacks, told, suppressed, answered, dropped>>

\* The worker dies: what is not committed is rolled back, and the task is not run again.
Crash(d) ==
  /\ "crash" \in Faults /\ task[d].pc \notin {"queued", "done", "dead"}
  /\ task' = [task EXCEPT ![d] = [Waiting EXCEPT !.pc = "dead"]]
  /\ lock' = IF lock = d THEN NoDelivery ELSE lock
  /\ UNCHANGED <<outcomeVars, suppressed, answered, dropped>>

TaskStep(d) ==
  \/ Load(d) \/ Persist(d) \/ SuppressOptOut(d) \/ ClassifyIntent(d) \/ EndEarly(d)
  \/ HoldReply(d) \/ DraftReply(d) \/ KeepDraft(d) \/ AutoSend(d) \/ AutoSendFails(d)
  \/ Qualify(d) \/ FlushVerdict(d) \/ QueueWriteBack(d) \/ SaveOutcome(d)

ReplyNext ==
  \/ \E d \in Deliveries : TaskStep(d) \/ Crash(d)
  \/ OutcomeNext /\ UNCHANGED replyVars

ReplySpec == ReplyInit /\ [][ReplyNext]_vars

-----------------------------------------------------------------------------

Mail == [subject : SUBSET STRING, above : SUBSET STRING, below : SUBSET STRING]

\* Each variable has values of its kind, a task that has its message flushed and not
\* committed holds the thread's row, and no other task does.
ReplyTypeOK ==
  /\ lead \in LeadRow
  /\ thread.status \in {"OPEN", "REPLIED"}
  /\ requests \in 0 .. MaxRequests
  /\ writeBacks.waiting \in Nat /\ \A b \in BOOLEAN : writeBacks.read[b] \in Nat
  /\ told \in {"nothing", "QUALIFIED", "IN_PROGRESS"}
  /\ answered \subseteq Deliveries
  /\ \A d \in Deliveries :
       /\ task[d].mail \in Mails \cup {NoMail}
       /\ task[d].open => lock = d
       /\ task[d].pc \in {"queued", "done", "dead"} => lock # d

\* An automatic answer goes to no message that asks to be left alone in its subject or above
\* the quote, nor to one that either model call was unsure of or wanted reviewed, or whose
\* intent is for a human or for nobody: live or canned, whichever of the two calls failed
\* (reply_agent.py: "Only auto-sends if ... safe").
OnlySureAnswers ==
  [][\A d \in answered' \ answered :
       LET c == task[d].class  r == task[d].draft
       IN /\ ~is_opt_out(FullText(task[d].mail)) /\ c.intent \in CanAutoReply
          /\ c.sure /\ r.sure /\ ~c.review /\ ~r.review]_vars

Saves(d) == task[d].pc \in {"saving", "queued_back"} /\ task'[d].pc = "done"

\* A message that is processed to the end is answered, or its thread is open for a human,
\* unless no mailbox could take the answer: that draft is lost (inbound_email.py:279).
UnansweredIsShown ==
  [][\A d \in Deliveries :
       Saves(d) => d \in answered \/ thread'.status = "OPEN" \/ d \in dropped]_vars

\* is_qualified says what qualification_status says, unless a session saved over a row that
\* another had changed since it read it, or a request with is_qualified = FALSE neither
\* disqualified the lead nor named its status, whatever else it set.
TornOnlyByOverlap == stale \/ lead = Evaluated(lead.status)

\* Not so: "is_qualified = True (if status == 'QUALIFIED')" (milestones, line 859).  Overlapping
\* sessions tear the columns, and so does one request for a meeting with is_qualified = FALSE.
ColumnsAgree == lead = Evaluated(lead.status)

\* "Loads lead and verifies qualification outcome" (crm_sync.py:21): with the inbound task
\* and the qualify request as the only callers, the CRM is told of qualified leads only.
VerifiedBeforeTold == told # "IN_PROGRESS"

=============================================================================
