---------------------------- MODULE MeetingBooking ----------------------------
(***************************************************************************)
(* AvailabilityEngine.book_meeting_concurrency_safe                         *)
(* (packages/calendar/availability.py): under a lock for host and start     *)
(* time, the overlap check in the database, the invite at the calendar      *)
(* provider, then the commit of the appointment.  A request is a client of  *)
(* DistributedLock with no retries.  What a booking does to the lead's      *)
(* enrollments is in ApiRequests.                                           *)
(***************************************************************************)
EXTENDS DistributedLock

CONSTANTS
  calendarOf,      \* calendarOf[r]: the calendar connection the request names
  startOf, endOf,  \* the meeting asked for
  BookingFaults    \* what may go wrong on the way

ASSUME BookingAssumption ==
  /\ startOf \in [Clients -> Nat]
  /\ endOf \in [Clients -> Nat]
  /\ \A r \in Clients : startOf[r] < endOf[r]
  /\ BookingFaults \subseteq {"provider", "lost_ack", "database", "crash"}

VARIABLES
  pc,             \* where each request is
  appointments,   \* requests whose CONFIRMED appointment is committed
  events,         \* requests whose event the provider has created
  late            \* requests whose lock ran out before they had confirmed or failed

rowVars == <<appointments, events, late>>
bookingVars == <<lockVars, pc, rowVars>>

AtWork == {"locked", "checked", "invited"}
UnderWay == AtWork \cup {"leaving"}

BookingTypeOK ==
  /\ LockTypeOK
  /\ pc \in [Clients -> {"new", "over"} \cup UnderWay]
  /\ appointments \subseteq Clients
  /\ events \subseteq Clients
  /\ late \subseteq Clients

BookingInit ==
  /\ LockInit
  /\ pc = [r \in Clients |-> "new"]
  /\ appointments = {}
  /\ events = {}
  /\ late = {}

-----------------------------------------------------------------------------

Goto(r, from, to) == pc[r] = from /\ pc' = [pc EXCEPT ![r] = to]

\* The condition of conflict_stmt.
Overlaps(r, s) ==
  /\ calendarOf[r] = calendarOf[s]
  /\ startOf[r] < endOf[s]
  /\ endOf[r] > startOf[s]

Lock(r) ==
  /\ Goto(r, "new", "locked")
  /\ AcquireRedis(r) \/ AcquireMemory(r)
  /\ UNCHANGED rowVars

LockRefused(r) ==
  /\ Goto(r, "new", "over")
  /\ RefusedByRedis(r) \/ RefusedByMemory(r)
  /\ UNCHANGED rowVars

\* Two faulty requests: one that does not look for conflicts, and one that gives
\* the lock back with the invite, before the appointment is committed.
FindNothing(r) ==
  /\ Goto(r, "locked", "checked")
  /\ UNCHANGED <<lockVars, rowVars>>
InviteUnlocked(r) ==
  /\ Goto(r, "checked", "invited")
  /\ events' = events \cup {r}
  /\ Release(r)
  /\ UNCHANGED <<appointments, late>>

FindFree(r) ==
  /\ Goto(r, "locked", "checked")
  /\ \A a \in appointments : ~Overlaps(a, r)
  /\ UNCHANGED <<lockVars, rowVars>>

FindTaken(r) ==
  /\ Goto(r, "locked", "leaving")
  /\ \E a \in appointments : Overlaps(a, r)
  /\ UNCHANGED <<lockVars, rowVars>>

Invite(r) ==
  /\ Goto(r, "checked", "invited")
  /\ events' = events \cup {r}
  /\ UNCHANGED <<lockVars, appointments, late>>

\* The provider's answer is an error; with "lost_ack" the event exists all the same.
InviteFails(r) ==
  /\ Goto(r, "checked", "leaving")
  /\ \/ "provider" \in BookingFaults /\ events' = events
     \/ "lost_ack" \in BookingFaults /\ events' = events \cup {r}
  /\ UNCHANGED <<lockVars, appointments, late>>

Confirm(r) ==
  /\ Goto(r, "invited", "leaving")
  /\ appointments' = appointments \cup {r}
  /\ UNCHANGED <<lockVars, events, late>>

\* A statement after the invite fails, and the transaction is rolled back.
CommitFails(r) ==
  /\ "database" \in BookingFaults
  /\ Goto(r, "invited", "leaving")
  /\ UNCHANGED <<lockVars, rowVars>>

Leave(r) ==
  /\ Goto(r, "leaving", "over")
  /\ Release(r)
  /\ UNCHANGED rowVars

\* An API process dies with the requests it works on.
Die(p) ==
  /\ "crash" \in BookingFaults
  /\ \E r \in Clients : processOf[r] = p /\ pc[r] \in UnderWay
  /\ pc' = [r \in Clients |-> IF processOf[r] = p /\ pc[r] \in UnderWay THEN "over" ELSE pc[r]]
  /\ LosesProcess(p)
  /\ UNCHANGED rowVars

-----------------------------------------------------------------------------

Progress(r) ==
  \/ Lock(r) \/ LockRefused(r)
  \/ FindFree(r) \/ FindTaken(r)
  \/ Invite(r) \/ InviteFails(r)
  \/ Confirm(r) \/ CommitFails(r)
  \/ Leave(r)

\* What a lock that has just run out means to the request that held it.
MarkLate ==
  /\ late' = late \cup {r \in outlived' : pc[r] \in AtWork}
  /\ UNCHANGED <<pc, appointments, events>>

LockEvent ==
  /\ \/ RedisFlips
     \/ \E k \in Keys : Expire(k)
     \/ \E p \in Processes, k \in Keys : ExpireEntry(p, k)
  /\ MarkLate

BookingNext ==
  \/ \E r \in Clients : Progress(r)
  \/ \E p \in Processes : Die(p)
  \/ LockEvent

BookingSpec == BookingInit /\ [][BookingNext]_bookingVars

\* A request of a living process goes on, and Redis drops a key at the end of its
\* time to live; nothing is assumed of new requests.
FairBookingSpec ==
  /\ BookingSpec
  /\ \A r \in Clients : WF_bookingVars(pc[r] # "new" /\ Progress(r))
  /\ \A k \in Keys : WF_bookingVars(Expire(k) /\ MarkLate)

-----------------------------------------------------------------------------
(* Properties.                                                               *)

\* Two requests are serialised by one lock: the same key, both in Redis or both in
\* the memory of one process.
SameLock(r, s) == "none" \notin {medium[r], medium[s]} /\ LockOf(r) = LockOf(s)

\* Of the requests one lock serialises, two overlapping ones are both confirmed
\* ("prevents double booking", apps/api/routers/calendar.py:189) only if one of them confirmed
\* after its own lock had run out: whatever fails between check, invite and commit, and
\* whoever's lock expires, a request that commits under its lock has the slot to itself.
NoDoubleBooking ==
  \A r, s \in appointments :
    r # s /\ SameLock(r, s) /\ Overlaps(r, s) => late \cap {r, s} # {}

\* A request that has ended, or is about to, without an appointment.
Failed(r) == pc[r] \in {"leaving", "over"} /\ r \notin appointments

\* Two invites for overlapping meetings go out under one lock only if one of the requests
\* has failed behind its invite or was still at work when its lock ran out: a request under
\* its lock and a confirmed one keep every other invite away.
InvitesClashOnlyAfterFailure ==
  \A r, s \in events :
    r # s /\ SameLock(r, s) /\ Overlaps(r, s) => \E q \in {r, s} : Failed(q) \/ q \in late

\* Until it runs out the lock is a mutual exclusion lock, Redis key by Redis key and process
\* by process, while Redis comes and goes, answers late, and processes die.
LockIsMutex == Mutex!Spec

\* No client's release takes a key or an entry away from another client: the comparisons of
\* tokens (distributed_lock.py:90 and 108), where a lock has expired under its holder and was
\* taken by another client.
ReleaseKeepsOthers ==
  [][\A c \in Clients : acquired[c] /\ ~acquired'[c] =>
       /\ \A k \in Keys : redis[k] \in Clients \ {c} => redis'[k] = redis[k]
       /\ \A d \in Clients \ {c} : acquired'[d] /\ Entry(d) = d => Entry(d)' = d]_bookingVars


\* No two confirmed meetings of a calendar overlap: the docstring's promise without
\* regard to the key the requests locked.
MeetingsDisjoint == \A r, s \in appointments : r # s => ~Overlaps(r, s)

\* Nor do two under one lock, without regard to the time to live of 15 seconds
\* (availability.py:215), as long as one phase of the provider call may take.
SlotBookedOnce == \A r, s \in appointments : r # s /\ SameLock(r, s) => ~Overlaps(r, s)

=============================================================================
