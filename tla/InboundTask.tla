------------------------------ MODULE InboundTask ------------------------------
(***************************************************************************)
(* process_inbound_email_task (apps/worker/tasks/inbound_email.py).  Each    *)
(* delivery is one webhook call's task; a provider may deliver a message    *)
(* more than once.  The task flushes the message, works through the lead's  *)
(* enrollments, each transition a commit of everything flushed so far, may  *)
(* answer by an email, and has no retry: an exception loses whatever is not *)
(* committed yet.                                                           *)
(***************************************************************************)
EXTENDS EmailDispatch

CONSTANTS
  Deliveries,       \* inbound tasks
  Messages,         \* provider message ids
  messageOf,        \* delivery -> message
  senderOf,         \* message -> lead
  OptOutMessages,   \* messages whose body OptOutDetector recognises
  NoDelivery

ASSUME InboundAssumption ==
  /\ messageOf \in [Deliveries -> Messages]
  /\ senderOf \in [Messages -> Leads]
  /\ OptOutMessages \subseteq Messages
  /\ NoDelivery \notin Deliveries

VARIABLES
  inbound,    \* where each delivery is, and what it has left to halt
  inSeen,     \* the enrollments as its session loaded them
  recorded,   \* email_messages rows committed for each message
  threadLock  \* the delivery whose open transaction has updated the lead's thread

inboundVars == <<inbound, inSeen, recorded, threadLock>>

InboundTypeOK ==
  /\ inbound \in [Deliveries ->
       [pc : {"queued", "checked", "classifying", "halting", "replying", "done", "failed"},
        open : BOOLEAN,                 \* the message is flushed, not committed
        adds : BOOLEAN,                 \* a suppression entry is to be inserted
        todo : SUBSET Enrollments,      \* enrollments still to be moved
        target : {"UNSUBSCRIBED", "COMPLETED", "REPLIED"}]]
  /\ inSeen \in [Deliveries -> [Enrollments -> Row]]
  /\ recorded \in [Messages -> Nat]
  /\ threadLock \in [Leads -> Deliveries \cup {NoDelivery}]

Unloaded == [e \in Enrollments |-> NotEnrolled]

InboundInit ==
  /\ inbound = [d \in Deliveries |->
       [pc |-> "queued", open |-> FALSE, adds |-> FALSE, todo |-> {}, target |-> "UNSUBSCRIBED"]]
  /\ inSeen = [d \in Deliveries |-> Unloaded]
  /\ recorded = [m \in Messages |-> 0]
  /\ threadLock = [l \in Leads |-> NoDelivery]

-----------------------------------------------------------------------------

Sender(d)   == senderOf[messageOf[d]]
IsOptOut(d) == messageOf[d] \in OptOutMessages
InAt(d, pc) == inbound[d].pc = pc

EnrollmentsOf(l) ==
  {e \in Enrollments : leadOf[e] = l /\ row[e].state # "NOT_ENROLLED"}

Unlock(d) == threadLock' = [threadLock EXCEPT ![Sender(d)] = IF @ = d THEN NoDelivery ELSE @]

\* The entry to insert is there by now: the unique constraint refuses the commit.
Conflicts(d) == inbound[d].open /\ inbound[d].adds /\ Sender(d) \in suppressed

\* A faulty opt-out: the lead's flags are set only along with a new entry.
CommitFlagsWithEntry(d) ==
  IF inbound[d].open
  THEN /\ recorded' = [recorded EXCEPT ![messageOf[d]] = @ + 1]
       /\ Unlock(d)
       /\ suppressed' = IF inbound[d].adds THEN suppressed \cup {Sender(d)} ELSE suppressed
       /\ optOut' = IF inbound[d].adds THEN optOut \cup {Sender(d)} ELSE optOut
  ELSE UNCHANGED <<recorded, threadLock, suppressed, optOut>>

\* The first commit makes the message and, for an opt-out, the suppression entry
\* and the lead's flags permanent; later commits add nothing.
CommitMessage(d) ==
  IF inbound[d].open
  THEN /\ recorded' = [recorded EXCEPT ![messageOf[d]] = @ + 1]
       /\ Unlock(d)
       /\ suppressed' = IF inbound[d].adds THEN suppressed \cup {Sender(d)} ELSE suppressed
       /\ optOut' = IF IsOptOut(d) THEN optOut \cup {Sender(d)} ELSE optOut
  ELSE UNCHANGED <<recorded, threadLock, suppressed, optOut>>

Commit(d) ==
  /\ ~Conflicts(d)
  /\ CommitMessage(d)
  /\ threads' = IF inbound[d].open THEN threads \cup {Sender(d)} ELSE threads
  /\ UNCHANGED <<sending, late>>

\* The task ends; its session closes and an open transaction is rolled back.
End(d, pc) ==
  /\ inbound' = [inbound EXCEPT ![d] =
       [@ EXCEPT !.pc = pc, !.open = FALSE, !.adds = FALSE, !.todo = {}]]
  /\ inSeen' = [inSeen EXCEPT ![d] = Unloaded]

Fail(d) ==
  /\ End(d, "failed")
  /\ Unlock(d)
  /\ UNCHANGED <<storeVars, recorded>>

-----------------------------------------------------------------------------

\* The duplicate check reads committed messages; more than one match raises.
Deduplicate(d) ==
  /\ InAt(d, "queued")
  /\ \/ recorded[messageOf[d]] = 0
        /\ inbound' = [inbound EXCEPT ![d].pc = "checked"] /\ UNCHANGED inSeen
     \/ recorded[messageOf[d]] = 1 /\ End(d, "done")
     \/ recorded[messageOf[d]] > 1 /\ End(d, "failed")
  /\ UNCHANGED <<storeVars, dispatchVars, recorded, threadLock>>

\* Thread and message are flushed (an existing thread's UPDATE locks it until the
\* commit) and the lead's enrollments are loaded; an opt-out then halts them all.
Persist(d) ==
  /\ InAt(d, "checked")
  /\ threadLock[Sender(d)] = NoDelivery
  /\ threadLock' = [threadLock EXCEPT ![Sender(d)] = IF Sender(d) \in threads THEN d ELSE @]
  /\ inSeen' = [inSeen EXCEPT ![d] =
       [e \in Enrollments |-> IF e \in EnrollmentsOf(Sender(d)) THEN row[e] ELSE NotEnrolled]]
  /\ inbound' = [inbound EXCEPT ![d] =
       IF IsOptOut(d)
       THEN [pc |-> "halting", open |-> TRUE, target |-> "UNSUBSCRIBED",
             adds |-> Sender(d) \notin suppressed,
             todo |-> {e \in EnrollmentsOf(Sender(d)) :
                         row[e].state \notin {"UNSUBSCRIBED", "COMPLETED"}}]
       ELSE [@ EXCEPT !.pc = "classifying", !.open = TRUE]]
  /\ UNCHANGED <<storeVars, dispatchVars, recorded>>

\* AUTO_REPLY: the message is kept, the sequence goes on.
IgnoreAutoReply(d) ==
  /\ InAt(d, "classifying")
  /\ Commit(d)
  /\ End(d, "done")
  /\ UNCHANGED <<status, row, locked>>

\* NOT_INTERESTED ends the sequences, any other intent marks them REPLIED: the
\* enrollments to move are chosen on the copies loaded before the classifier ran.
Classify(d, target) ==
  /\ InAt(d, "classifying")
  /\ inbound' = [inbound EXCEPT ![d] =
       [@ EXCEPT !.pc = "halting", !.target = target,
                 !.todo = {e \in Enrollments :
                             inSeen[d][e].state \in {"QUEUED", "WAITING", "SENT"}}]]
  /\ UNCHANGED <<storeVars, dispatchVars, inSeen, recorded, threadLock>>

Halt(d, e) ==
  /\ InAt(d, "halting") /\ e \in inbound[d].todo
  /\ can_transition(inSeen[d][e].state, inbound[d].target)
  /\ Writable(campaignOf[e])
  /\ Commit(d)
  /\ row' = Moved(e, inSeen[d][e], inbound[d].target)
  /\ inbound' = [inbound EXCEPT ![d].open = FALSE, ![d].todo = @ \ {e}]
  /\ UNCHANGED <<status, locked, inSeen>>

\* The table refuses the transition, or the database the commit: the task ends.
HaltFails(d) ==
  /\ InAt(d, "halting")
  /\ \/ Conflicts(d)
     \/ \E e \in inbound[d].todo : ~can_transition(inSeen[d][e].state, inbound[d].target)
  /\ Fail(d)
  /\ UNCHANGED dispatchVars

Halted(d) == InAt(d, "halting") /\ inbound[d].todo = {}

\* No reply is sent: none is due, it needs a human, or no mailbox can send it.
Finish(d) ==
  /\ Halted(d)
  /\ Commit(d)
  /\ End(d, "done")
  /\ UNCHANGED <<status, row, locked>>

\* The grounded reply goes out through dispatch_email.
BeginReply(d) ==
  /\ Halted(d) /\ inbound[d].target = "REPLIED"
  /\ BeginDispatch(Sender(d))
  /\ inbound' = [inbound EXCEPT ![d].pc = "replying"]
  /\ UNCHANGED <<storeVars, inSeen, recorded, threadLock>>

Reply(d) ==
  /\ InAt(d, "replying")
  /\ Accept(Sender(d), TRUE)
  /\ CommitMessage(d)
  /\ End(d, "done")
  /\ UNCHANGED <<status, row, locked>>

\* A failed reply is logged, and the task goes on to its last commit.
ReplyFails(d) ==
  /\ InAt(d, "replying") /\ "provider" \in Faults
  /\ sending' = sending \ {Sender(d)}
  /\ threads' = threads \cup {Sender(d)}
  /\ CommitMessage(d)
  /\ End(d, "done")
  /\ UNCHANGED <<status, row, locked, late>>

InboundCrash(d) ==
  /\ "crash" \in Faults
  /\ inbound[d].pc \notin {"queued", "done", "failed"}
  /\ IF InAt(d, "replying") THEN AbortDispatch(Sender(d)) ELSE UNCHANGED dispatchVars
  /\ Fail(d)

InboundProgress(d) ==
  \/ Deduplicate(d) \/ Persist(d) \/ IgnoreAutoReply(d)
  \/ \E target \in {"COMPLETED", "REPLIED"} : Classify(d, target)
  \/ \E e \in Enrollments : Halt(d, e)
  \/ HaltFails(d) \/ Finish(d) \/ BeginReply(d) \/ Reply(d)

InboundFault(d) == ReplyFails(d) \/ InboundCrash(d)

InboundNext == \E d \in Deliveries : InboundProgress(d) \/ InboundFault(d)

=============================================================================
