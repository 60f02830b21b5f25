----------------------------- MODULE SendService -----------------------------
(***************************************************************************)
(* EmailSendService.dispatch_email step by step, with the mailboxes it     *)
(* sends through (email_accounts) and the requests that change them.       *)
(*                                                                         *)
(* A request to /email/send loads the account inside the dispatch.  The     *)
(* campaign task and the inbound task pick a mailbox first, and render or   *)
(* file things before they dispatch in the same session: the select of the *)
(* dispatch then returns the loaded object as it is, so limit and health    *)
(* are checked, and the counter is counted up, on that older copy.          *)
(* The lock is not one per mailbox, and not one per recipient either: its   *)
(* key is the lead's id or, when a request names no lead, the address.  It  *)
(* lives 30 seconds, and the provider alone may take as long.               *)
(***************************************************************************)
EXTENDS Integers, FiniteSets

CONSTANTS
  Accounts,       \* ids email_accounts rows may get
  Senders,        \* tasks and requests that send
  PickEarly,      \* the senders that are tasks
  Recipients,
  Limits,         \* values daily_send_limit may be given
  MAX_ATTEMPTS,   \* bound of the dispatches begun
  SendFaults      \* the failures a run of the model lets happen

ASSUME SendAssumption ==
  /\ PickEarly \subseteq Senders
  /\ "none" \notin Accounts
  /\ Limits \subseteq Nat \ {0}
  /\ MAX_ATTEMPTS \in Nat
  /\ SendFaults \subseteq {"provider", "unauthorized", "database", "crash", "expiry"}

VARIABLES
  account,     \* email_accounts: health_status, daily_send_limit, current_day_sends
  sender,      \* where each sender is, with its lock key and its copy of an account
  matches,     \* entries of suppression_list for the recipient: its address, its domain
  messages,    \* email_messages rows per lock key
  attempts,    \* dispatches begun
  accepted,    \* history: emails the provider took, per account
  handed,      \* history: emails the provider took, per lock key
  recorded,    \* history: emails committed as sent, per account
  shared,      \* history: accounts of which two senders had a copy at a time
  lapsed,      \* history: lock keys that became free under a dispatch
  topLimit     \* history: the highest limit each account has had

sendVars == <<account, sender, matches, messages, attempts,
              accepted, handed, recorded, shared, lapsed, topLimit>>
histVars == <<accepted, handed, recorded, shared, lapsed, topLimit>>

MailboxHealthStatus == {"HEALTHY", "PAUSED", "REVOKED", "WARMUP"}
Absent == [row |-> "absent"]
Rows == [row : {"there"}, health : MailboxHealthStatus, limit : Limits, sends : Nat]
Copies == [id : Accounts, health : MailboxHealthStatus, limit : Limits, sends : Nat]

\* send_lock:{workspace}:{lead_id or to_email}; a recipient is one lead's address.
Keys == Recipients \X {"lead", "address"}
ToOf(key) == key[1]

NoCopy == [id |-> "none"]
Rest == [at |-> "rest"]
Holding == {"locked", "checked", "cleared", "accepted"}

SendTypeOK ==
  /\ account \in [Accounts -> Rows \cup {Absent}]
  /\ sender \in [Senders -> [at : Holding \cup {"picked"}, key : Keys,
                             lock : {"free", "held"}, copy : Copies \cup {NoCopy}] \cup {Rest}]
  /\ matches \in [Recipients -> SUBSET {"email", "domain"}]
  /\ messages \in [Keys -> Nat]
  /\ attempts \in 0 .. MAX_ATTEMPTS
  /\ accepted \in [Accounts -> Nat] /\ recorded \in [Accounts -> Nat]
  /\ handed \in [Keys -> Nat]
  /\ shared \subseteq Accounts /\ lapsed \subseteq Keys
  /\ topLimit \in [Accounts -> Limits \cup {0}]

SendInit ==
  /\ account = [a \in Accounts |-> Absent]
  /\ sender = [p \in Senders |-> Rest]
  /\ matches = [r \in Recipients |-> {}]
  /\ messages = [key \in Keys |-> 0]
  /\ attempts = 0
  /\ accepted = [a \in Accounts |-> 0] /\ recorded = [a \in Accounts |-> 0]
  /\ handed = [key \in Keys |-> 0]
  /\ shared = {} /\ lapsed = {}
  /\ topLimit = [a \in Accounts |-> 0]

There(a) == account[a] # Absent
At(p, where) == sender[p].at = where
Become(p, where) == sender' = [sender EXCEPT ![p].at = where]
Release(p) == sender' = [sender EXCEPT ![p] = Rest]
Highest(a, limit) == topLimit' = [topLimit EXCEPT ![a] = IF limit > @ THEN limit ELSE @]

Copy(a) == [id |-> a, health |-> account[a].health,
            limit |-> account[a].limit, sends |-> account[a].sends]
HasCopyOf(p, a) == sender[p] # Rest /\ sender[p].copy.id = a
NowShared(p, a) ==
  shared' = IF \E q \in Senders \ {p} : HasCopyOf(q, a) THEN shared \cup {a} ELSE shared

-----------------------------------------------------------------------------
(* The account endpoints.  A mailbox that was deleted is connected again as a
   new row, with a counter of its own. *)

ConnectAccount(a, limit) ==
  /\ account[a] = Absent /\ topLimit[a] = 0
  /\ account' = [account EXCEPT ![a] = [row |-> "there", health |-> "HEALTHY",
                                        limit |-> limit, sends |-> 0]]
  /\ Highest(a, limit)
  /\ UNCHANGED <<sender, matches, messages, attempts, accepted, handed, recorded, shared, lapsed>>

UpdateAccount(a, limit, health) ==
  /\ There(a)
  /\ account' = [account EXCEPT ![a].limit = limit, ![a].health = health]
  /\ Highest(a, limit)
  /\ UNCHANGED <<sender, matches, messages, attempts, accepted, handed, recorded, shared, lapsed>>

DisconnectAccount(a) ==
  /\ There(a)
  /\ account' = [account EXCEPT ![a] = Absent]
  /\ UNCHANGED <<sender, matches, messages, attempts, histVars>>

(* POST and DELETE /email/suppression. *)
AddSuppression(r, kind) ==
  /\ matches' = [matches EXCEPT ![r] = @ \cup {kind}]
  /\ UNCHANGED <<account, sender, messages, attempts, histVars>>

DeleteSuppression(r, kind) ==
  /\ kind \in matches[r]
  /\ matches' = [matches EXCEPT ![r] = @ \ {kind}]
  /\ UNCHANGED <<account, sender, messages, attempts, histVars>>

-----------------------------------------------------------------------------

HasQuota(a) == account[a].sends < account[a].limit

(* The task's select of a healthy mailbox with quota left; a task names its lead. *)
PickMailbox(p, r, a) ==
  /\ p \in PickEarly /\ sender[p] = Rest
  /\ There(a) /\ account[a].health = "HEALTHY" /\ HasQuota(a)
  /\ sender' = [sender EXCEPT ![p] = [at |-> "picked", key |-> <<r, "lead">>,
                                       lock |-> "free", copy |-> Copy(a)]]
  /\ NowShared(p, a)
  /\ UNCHANGED <<account, matches, messages, attempts, accepted, handed, recorded, lapsed, topLimit>>

\* A dispatch is under way, and has its lock.
Sending(p) == sender[p].at \in Holding
Holds(p) == Sending(p) /\ sender[p].lock = "held"
LockFree(key) == \A q \in Senders : Holds(q) => sender[q].key # key

\* Does not wait for the lock.
EnterUnlocked(p, key) ==
  /\ attempts < MAX_ATTEMPTS
  /\ attempts' = attempts + 1
  /\ IF p \in PickEarly
     THEN /\ At(p, "picked") /\ sender[p].key = key
          /\ sender' = [sender EXCEPT ![p].at = "locked", ![p].lock = "held"]
     ELSE /\ sender[p] = Rest
          /\ sender' = [sender EXCEPT ![p] = [at |-> "locked", key |-> key,
                                             lock |-> "held", copy |-> NoCopy]]
  /\ UNCHANGED <<account, matches, messages, histVars>>

(* async with DistributedLock(lock_key).  Who does not get the lock raises. *)
TakeSendLock(p, key) ==
  /\ LockFree(key)
  /\ EnterUnlocked(p, key)

LockBusy(p) ==
  /\ At(p, "picked") /\ ~LockFree(sender[p].key)
  /\ Release(p)
  /\ UNCHANGED <<account, matches, messages, attempts, histVars>>

(* Thirty seconds are over, or Redis is away and the others fall back on locks of
   their own: the dispatch goes on. *)
LockLapses(p) ==
  /\ "expiry" \in SendFaults
  /\ Holds(p)
  /\ sender' = [sender EXCEPT ![p].lock = "free"]
  /\ lapsed' = lapsed \cup {sender[p].key}
  /\ UNCHANGED <<account, matches, messages, attempts, accepted, handed, recorded,
                 shared, topLimit>>

CheckSuppression(p) ==
  /\ At(p, "locked") /\ matches[ToOf(sender[p].key)] = {}
  /\ Become(p, "checked")
  /\ UNCHANGED <<account, matches, messages, attempts, histVars>>

(* Suppressed; or, with two entries, scalar_one_or_none raises. *)
AbortSuppressed(p) ==
  /\ At(p, "locked") /\ matches[ToOf(sender[p].key)] # {}
  /\ Release(p)
  /\ UNCHANGED <<account, matches, messages, attempts, histVars>>

\* Lets one email more than the limit out.
MaySendAtLimit(copy) == copy.health \notin {"REVOKED", "PAUSED"} /\ copy.sends <= copy.limit

MaySend(copy) == copy.health \notin {"REVOKED", "PAUSED"} /\ copy.sends < copy.limit

(* select(EmailAccount): a row the session has loaded keeps its attributes. *)
Reread(p, a) == IF sender[p].copy = NoCopy THEN Copy(a) ELSE sender[p].copy

CheckAccount(p, a) ==
  /\ At(p, "checked") /\ There(a)
  /\ sender[p].copy.id \in {a, "none"}
  /\ MaySend(Reread(p, a))
  /\ sender' = [sender EXCEPT ![p].at = "cleared", ![p].copy = Reread(p, a)]
  /\ NowShared(p, a)
  /\ UNCHANGED <<account, matches, messages, attempts, accepted, handed, recorded, lapsed, topLimit>>

(* No such account, revoked, paused, or over its limit. *)
RefuseAccount(p, a) ==
  /\ At(p, "checked")
  /\ sender[p].copy.id \in {a, "none"}
  /\ There(a) => ~MaySend(Reread(p, a))
  /\ Release(p)
  /\ UNCHANGED <<account, matches, messages, attempts, histVars>>

Count(f, x) == [f EXCEPT ![x] = @ + 1]

ProviderAccepts(p) ==
  /\ At(p, "cleared")
  /\ accepted' = Count(accepted, sender[p].copy.id)
  /\ handed' = Count(handed, sender[p].key)
  /\ Become(p, "accepted")
  /\ UNCHANGED <<account, matches, messages, attempts, recorded, shared, lapsed, topLimit>>

ProviderFails(p) ==
  /\ "provider" \in SendFaults
  /\ At(p, "cleared")
  /\ Release(p)
  /\ UNCHANGED <<account, matches, messages, attempts, histVars>>

(* 401: only the column that changed is written, and committed before the raise. *)
ProviderUnauthorized(p) ==
  /\ "unauthorized" \in SendFaults
  /\ At(p, "cleared")
  /\ account' = IF There(sender[p].copy.id)
                THEN [account EXCEPT ![sender[p].copy.id].health = "REVOKED"] ELSE account
  /\ Release(p)
  /\ UNCHANGED <<matches, messages, attempts, histVars>>

\* Writes the whole copy back.
SavedWhole(copy) == [account EXCEPT ![copy.id].sends = copy.sends + 1,
                                    ![copy.id].health = copy.health]
\* Counts the send twice: once when it is cleared, once when it is recorded.
CountedTwice(copy) == [account EXCEPT ![copy.id].sends = copy.sends + 2]

Counted(copy) == [account EXCEPT ![copy.id].sends = copy.sends + 1]

(* Thread, message and counter are one commit. *)
RecordSent(p) ==
  /\ At(p, "accepted") /\ There(sender[p].copy.id)
  /\ account' = Counted(sender[p].copy)
  /\ messages' = Count(messages, sender[p].key)
  /\ recorded' = Count(recorded, sender[p].copy.id)
  /\ Release(p)
  /\ UNCHANGED <<matches, attempts, accepted, handed, shared, lapsed, topLimit>>

(* The commit fails: the database is away, or the account was deleted and its
   UPDATE finds no row.  The email is out and nothing says so. *)
RecordLost(p) ==
  /\ At(p, "accepted")
  /\ "database" \in SendFaults \/ ~There(sender[p].copy.id)
  /\ Release(p)
  /\ UNCHANGED <<account, matches, messages, attempts, histVars>>

SenderDies(p) ==
  /\ "crash" \in SendFaults
  /\ sender[p] # Rest
  /\ Release(p)
  /\ UNCHANGED <<account, matches, messages, attempts, histVars>>

-----------------------------------------------------------------------------

Dispatch(p) ==
  \/ \E key \in Keys : TakeSendLock(p, key)
  \/ LockLapses(p) \/ LockBusy(p) \/ CheckSuppression(p) \/ AbortSuppressed(p)
  \/ \E a \in Accounts : CheckAccount(p, a)
  \/ \E a \in Accounts : RefuseAccount(p, a)
  \/ ProviderAccepts(p) \/ ProviderFails(p) \/ ProviderUnauthorized(p)
  \/ RecordSent(p) \/ RecordLost(p) \/ SenderDies(p)

SendNext ==
  \/ \E a \in Accounts, limit \in Limits : ConnectAccount(a, limit)
  \/ \E a \in Accounts, limit \in Limits, health \in MailboxHealthStatus :
       UpdateAccount(a, limit, health)
  \/ \E a \in Accounts : DisconnectAccount(a)
  \/ \E r \in Recipients, kind \in {"email", "domain"} : AddSuppression(r, kind)
  \/ \E r \in Recipients, kind \in {"email", "domain"} : DeleteSuppression(r, kind)
  \/ \E p \in Senders, r \in Recipients, a \in Accounts : PickMailbox(p, r, a)
  \/ \E p \in Senders : Dispatch(p)

SendSpec == SendInit /\ [][SendNext]_sendVars

-----------------------------------------------------------------------------
(* Properties *)

\* The counter never runs ahead of the emails the provider took, and as long as
\* no two senders had a copy of the row at once it is exactly what was recorded.
CounterIsFair ==
  \A a \in Accounts : There(a) =>
    /\ account[a].sends <= accepted[a]
    /\ a \notin shared => account[a].sends = recorded[a]

\* The daily limit is passed only by senders that share a mailbox at one time
\* (and by emails whose commit failed): a change of the limit, the order of the
\* checks or an early pick alone never lets one more email out.
LimitHeldAlone == \A a \in Accounts : a \notin shared => recorded[a] <= topLimit[a]

\* The checks are there to hold the limit whoever sends.
DailyLimitHeld == \A a \in Accounts : recorded[a] <= topLimit[a]

\* A mailbox the provider has revoked stays so until somebody patches it, though
\* sends cleared before end after it and write to its row.
RevokedUntilPatched ==
  [][\A a \in Accounts :
       There(a) /\ account[a].health = "REVOKED" /\ There(a)' /\ account'[a].health # "REVOKED"
         => \E limit \in Limits, health \in MailboxHealthStatus : UpdateAccount(a, limit, health)
    ]_sendVars

\* What the outbox of a lock key is in this state.
OutboxOf(key) ==
  CASE key \in lapsed -> "lapsed"
    [] key \notin lapsed /\ (\E p \in Senders : At(p, "accepted") /\ sender[p].key = key)
         -> "delivered"
    [] key \notin lapsed /\ (\E p \in Senders : Sending(p) /\ ~At(p, "accepted") /\ sender[p].key = key)
         -> "held"
    [] OTHER -> "free"

Outbox == INSTANCE EmailOutbox WITH
            Keys <- Keys,
            outbox <- [key \in Keys |-> OutboxOf(key)],
            handed <- handed,
            filed <- messages

\* Whoever sends under one lock key, and until its lock lapses under a dispatch: one
\* dispatch is under way at a time, hands the provider at most one email, and files
\* only an email the provider took (send_service.py:51-53).
KeepsOutbox == Outbox!OutboxSpec

-----------------------------------------------------------------------------
(* What the comment says and the code does not keep.                         *)

\* "Double-Sending Protection" (send_service.py:51): a recipient has one dispatch under
\* way at a time.  A request that names no lead has a key of its own, and a lock lapses.
OneDispatchPerRecipient ==
  \A p, q \in Senders :
    Sending(p) /\ Sending(q) /\ ToOf(sender[p].key) = ToOf(sender[q].key) => p = q
=============================================================================
