---------------------------- MODULE Booking_proofs ----------------------------
(***************************************************************************)
(* Proofs about MeetingBooking and the lock under it, for any number of     *)
(* requests, processes and keys.                                            *)
(***************************************************************************)
EXTENDS MeetingBooking, TLAPS

\* Every variable of the lock and of the requests keeps its type, even where locks
\* expire under their holders.
THEOREM BookingTypeCorrect == BookingSpec => []BookingTypeOK
<1>1. BookingInit => BookingTypeOK
  BY LockAssumption DEF BookingInit, BookingTypeOK, LockInit, LockTypeOK, Owners
<1>2. BookingTypeOK /\ [BookingNext]_bookingVars => BookingTypeOK'
  <2> SUFFICES ASSUME BookingTypeOK, [BookingNext]_bookingVars
               PROVE  BookingTypeOK'
    OBVIOUS
  <2> USE LockAssumption DEF BookingTypeOK, LockTypeOK, Owners, UnderWay, AtWork, Goto, rowVars
  <2>1. ASSUME NEW r \in Clients, Lock(r) PROVE BookingTypeOK'
    <3>1. CASE AcquireRedis(r)
      BY <2>1, <3>1 DEF Lock, AcquireRedis
    <3>2. CASE AcquireMemory(r)
      BY <2>1, <3>2 DEF Lock, AcquireMemory, FallBack
    <3> QED
      BY <2>1, <3>1, <3>2 DEF Lock
  <2>2. ASSUME NEW r \in Clients, LockRefused(r) PROVE BookingTypeOK'
    <3>1. CASE RefusedByRedis(r)
      BY <2>2, <3>1 DEF LockRefused, RefusedByRedis, lockVars
    <3>2. CASE RefusedByMemory(r)
      BY <2>2, <3>2 DEF LockRefused, RefusedByMemory, FallBack
    <3> QED
      BY <2>2, <3>1, <3>2 DEF LockRefused
  <2>3. ASSUME NEW r \in Clients,
               FindFree(r) \/ FindTaken(r) \/ Invite(r) \/ InviteFails(r) \/ Confirm(r) \/ CommitFails(r)
        PROVE BookingTypeOK'
    BY <2>3 DEF FindFree, FindTaken, Invite, InviteFails, Confirm, CommitFails, lockVars
  <2>4. ASSUME NEW r \in Clients, Leave(r) PROVE BookingTypeOK'
    BY <2>4 DEF Leave, Release, KeyAfterRelease
  <2>5. ASSUME NEW p \in Processes, Die(p) PROVE BookingTypeOK'
    BY <2>5 DEF Die, LosesProcess
  <2>6. CASE LockEvent
    <3>1. LockTypeOK'
      <4>1. CASE RedisFlips
        BY <4>1 DEF RedisFlips
      <4>2. ASSUME NEW k \in Keys, Expire(k) PROVE LockTypeOK'
        BY <4>2 DEF Expire
      <4>3. ASSUME NEW p \in Processes, NEW k \in Keys, ExpireEntry(p, k) PROVE LockTypeOK'
        BY <4>3 DEF ExpireEntry
      <4> QED
        BY <2>6, <4>1, <4>2, <4>3 DEF LockEvent
    <3>2. late' \subseteq Clients /\ UNCHANGED <<pc, appointments, events>>
      BY <2>6, <3>1 DEF LockEvent, MarkLate
    <3> QED
      BY <3>1, <3>2
  <2>7. CASE UNCHANGED bookingVars
    BY <2>7 DEF bookingVars, lockVars
  <2> QED
    BY <2>1, <2>2, <2>3, <2>4, <2>5, <2>6, <2>7 DEF BookingNext, Progress
<1> QED
  BY <1>1, <1>2, PTL DEF BookingSpec

-----------------------------------------------------------------------------
(* The lock.                                                                 *)

Holding(c) == acquired[c] /\ c \notin outlived

\* Until its lock runs out, a client that holds it is what the key or entry says; a request
\* has acquired its lock exactly while it is under way, and is late from the moment the lock
\* runs out while it is at work.
LockHeld ==
  /\ \A c \in Clients : acquired[c] => medium[c] # "none"
  /\ \A c \in Clients : Holding(c) /\ medium[c] = "redis" => redis[keyOf[c]] = c
  /\ \A c \in Clients : Holding(c) /\ medium[c] = "memory" => Entry(c) = c
  /\ \A c \in Clients : acquired[c] <=> pc[c] \in UnderWay
  /\ \A c \in Clients : pc[c] = "new" => c \notin outlived
  /\ \A c \in Clients : pc[c] \in AtWork /\ c \in outlived => c \in late
  /\ late \subseteq outlived

\* Held locks are exclusive.
ExclusiveLocks ==
  \A c, d \in Clients : Holding(c) /\ Holding(d) /\ LockOf(c) = LockOf(d) => c = d

LEMMA Exclusive == LockTypeOK /\ LockHeld => ExclusiveLocks
<1> SUFFICES ASSUME LockTypeOK, LockHeld, NEW c \in Clients, NEW d \in Clients,
                    Holding(c), Holding(d), LockOf(c) = LockOf(d)
             PROVE  c = d
  BY DEF ExclusiveLocks
<1>1. keyOf[c] = keyOf[d]
  BY DEF LockOf
<1>2. (medium[c] = "redis" /\ medium[d] = "redis") \/ (medium[c] = "memory" /\ medium[d] = "memory")
  BY LockAssumption DEF LockOf, LockTypeOK, LockHeld, Holding
<1>3. CASE medium[c] = "redis" /\ medium[d] = "redis"
  BY <1>1, <1>3 DEF LockHeld
<1>4. CASE medium[c] = "memory" /\ medium[d] = "memory"
  <2>1. processOf[c] = processOf[d]
    BY <1>4 DEF LockOf
  <2> QED
    BY <1>1, <1>4, <2>1 DEF LockHeld, Entry
<1> QED
  BY <1>2, <1>3, <1>4

LEMMA LockHeldHolds == BookingSpec => []LockHeld
<1>1. BookingInit => LockHeld
  BY DEF BookingInit, LockInit, LockHeld, Holding, UnderWay, AtWork
<1>2. BookingTypeOK /\ LockHeld /\ [BookingNext]_bookingVars => LockHeld'
  <2> SUFFICES ASSUME BookingTypeOK, LockHeld, [BookingNext]_bookingVars
               PROVE  LockHeld'
    OBVIOUS
  <2> USE LockAssumption DEF BookingTypeOK, LockTypeOK, Owners, UnderWay, AtWork, Goto, LockHeld,
                             Holding, Entry, rowVars
  <2>1. ASSUME NEW r \in Clients, Lock(r) PROVE LockHeld'
    <3>1. CASE AcquireRedis(r)
      BY <2>1, <3>1 DEF Lock, AcquireRedis
    <3>2. CASE AcquireMemory(r)
      BY <2>1, <3>2 DEF Lock, AcquireMemory, FallBack
    <3> QED
      BY <2>1, <3>1, <3>2 DEF Lock
  <2>2. ASSUME NEW r \in Clients, LockRefused(r) PROVE LockHeld'
    <3>1. CASE RefusedByRedis(r)
      BY <2>2, <3>1 DEF LockRefused, RefusedByRedis, lockVars
    <3>2. CASE RefusedByMemory(r)
      BY <2>2, <3>2 DEF LockRefused, RefusedByMemory, FallBack
    <3> QED
      BY <2>2, <3>1, <3>2 DEF LockRefused
  <2>3. ASSUME NEW r \in Clients,
               FindFree(r) \/ FindTaken(r) \/ Invite(r) \/ InviteFails(r) \/ Confirm(r) \/ CommitFails(r)
        PROVE LockHeld'
    <3>1. UNCHANGED <<redis, memory, acquired, medium, outlived, late>>
      BY <2>3 DEF FindFree, FindTaken, Invite, InviteFails, Confirm, CommitFails, lockVars
    <3>2. pc[r] \in AtWork /\ \E to \in UnderWay : pc' = [pc EXCEPT ![r] = to]
      BY <2>3 DEF FindFree, FindTaken, Invite, InviteFails, Confirm, CommitFails
    <3>3. \A c \in Clients : /\ pc[c] \in UnderWay <=> pc'[c] \in UnderWay
                             /\ pc'[c] \in AtWork => pc[c] \in AtWork
                             /\ pc'[c] # "new" \/ pc[c] = "new"
      BY <3>2
    <3>4. \A c \in Clients : (Holding(c)' <=> Holding(c)) /\ Entry(c)' = Entry(c)
      BY <3>1
    <3>5. redis' = redis /\ acquired' = acquired /\ medium' = medium /\ outlived' = outlived /\ late' = late
      BY <3>1
    <3>6. /\ \A c \in Clients : acquired'[c] => medium'[c] # "none"
          /\ \A c \in Clients : Holding(c)' /\ medium'[c] = "redis" => redis'[keyOf[c]] = c
          /\ \A c \in Clients : Holding(c)' /\ medium'[c] = "memory" => Entry(c)' = c
      <4> HIDE DEF Holding, Entry
      <4> QED
        BY <3>4, <3>5
    <3>7. /\ \A c \in Clients : acquired'[c] <=> pc'[c] \in UnderWay
          /\ \A c \in Clients : pc'[c] = "new" => c \notin outlived'
          /\ \A c \in Clients : pc'[c] \in AtWork /\ c \in outlived' => c \in late'
          /\ late' \subseteq outlived'
      <4> SUFFICES ASSUME NEW c \in Clients
                   PROVE  /\ acquired[c] <=> pc'[c] \in UnderWay
                          /\ pc'[c] = "new" => c \notin outlived
                          /\ pc'[c] \in AtWork /\ c \in outlived => c \in late
        BY <3>5
      <4>1. /\ acquired[c] <=> pc[c] \in UnderWay
            /\ pc[c] = "new" => c \notin outlived
            /\ pc[c] \in AtWork /\ c \in outlived => c \in late
        OBVIOUS
      <4> QED
        BY <3>3, <4>1
    <3> QED
      BY <3>6, <3>7
  <2>4. ASSUME NEW r \in Clients, Leave(r) PROVE LockHeld'
    BY <2>4 DEF Leave, Release, KeyAfterRelease
  <2>5. ASSUME NEW p \in Processes, Die(p) PROVE LockHeld'
    BY <2>5 DEF Die, LosesProcess
  <2>6. CASE LockEvent
    <3>0. MarkLate
      BY <2>6 DEF LockEvent
    <3>1. CASE RedisFlips
      BY <3>0, <3>1 DEF MarkLate, RedisFlips
    <3>2. ASSUME NEW k \in Keys, Expire(k) PROVE LockHeld'
      BY <3>0, <3>2 DEF MarkLate, Expire, Holds
    <3>3. ASSUME NEW p \in Processes, NEW k \in Keys, ExpireEntry(p, k) PROVE LockHeld'
      <4>1. /\ redis' = redis /\ acquired' = acquired /\ medium' = medium /\ pc' = pc
            /\ outlived' = outlived \cup {c \in Clients : memory[p][k] = c /\ Holds(c, "memory")}
            /\ late' = late \cup {c \in outlived' : pc[c] \in AtWork}
        BY <3>0, <3>3 DEF MarkLate, ExpireEntry
      <4>2. \A c \in Clients : /\ acquired[c] /\ medium[c] = "memory"
                              /\ Entry(c) = c /\ c \notin outlived'
                              => Entry(c)' = c
        BY <3>3 DEF ExpireEntry, Holds
      <4>3. \A c \in outlived' \ outlived : pc[c] # "new"
        BY <4>1 DEF Holds
      <4> QED
        BY <4>1, <4>2, <4>3
    <3> QED
      BY <2>6, <3>1, <3>2, <3>3 DEF LockEvent
  <2>7. CASE UNCHANGED bookingVars
    BY <2>7 DEF bookingVars, lockVars
  <2> QED
    BY <2>1, <2>2, <2>3, <2>4, <2>5, <2>6, <2>7 DEF BookingNext, Progress
<1> QED
  BY <1>1, <1>2, BookingTypeCorrect, PTL DEF BookingSpec

\* The holder of a lock, as the refinement mapping sees it, is the client that has
\* acquired it, until it runs out.
HolderAcquired ==
  \A n \in Locks : \A c \in Clients : Holding(c) /\ LockOf(c) = n => holder[n] = c

LEMMA HolderIs == ExclusiveLocks => HolderAcquired
<1> SUFFICES ASSUME ExclusiveLocks, NEW n \in Locks, NEW c \in Clients, Holding(c), LockOf(c) = n
             PROVE  holder[n] = c
  BY DEF HolderAcquired
<1>1. holder[n] = IF HoldersOf(n) = {} THEN NoClient ELSE CHOOSE d \in HoldersOf(n) : TRUE
  BY DEF holder, TheOne
<1>2. c \in HoldersOf(n) /\ \A d \in HoldersOf(n) : d = c
  BY DEF HoldersOf, ExclusiveLocks, Holding
<1>3. (CHOOSE d \in HoldersOf(n) : TRUE) \in HoldersOf(n)
  BY <1>2
<1> QED
  BY <1>1, <1>2, <1>3

\* A step in which nobody acquires a lock frees some locks, or none.
LEMMA NobodyAcquires ==
  ASSUME HolderAcquired, HolderAcquired',
         \A c \in Clients : acquired'[c] => acquired[c] /\ medium'[c] = medium[c],
         outlived \subseteq outlived'
  PROVE  Mutex!Next
<1> DEFINE freed == {n \in Locks : \A c \in Clients : Holding(c)' => LockOf(c) # n}
<1>1. \A n \in Locks \ freed : holder'[n] = holder[n]
  <2> SUFFICES ASSUME NEW n \in Locks, n \notin freed PROVE holder'[n] = holder[n]
    OBVIOUS
  <2>1. PICK c \in Clients : Holding(c)' /\ LockOf(c) = n
    OBVIOUS
  <2>2. Holding(c) /\ LockOf(c)' = n
    BY <2>1 DEF LockOf, Holding
  <2>3. holder[n] = c
    BY <2>2, <2>1 DEF HolderAcquired
  <2>4. holder'[n] = c
    BY <2>1, <2>2 DEF HolderAcquired
  <2> QED
    BY <2>3, <2>4
<1>2. \A n \in freed : holder'[n] = NoClient
  <2> SUFFICES ASSUME NEW n \in freed PROVE holder'[n] = NoClient
    OBVIOUS
  <2>1. \A c \in Clients : Holding(c)' => LockOf(c)' # n
    BY DEF LockOf, Holding
  <2> QED
    BY <2>1 DEF holder, TheOne, HoldersOf, Holding
<1>3. holder' = [n \in Locks |-> IF n \in freed THEN NoClient ELSE holder[n]]
  BY <1>1, <1>2 DEF holder
<1> QED
  BY <1>3 DEF Mutex!Next, Mutex!Free

\* The lock of distributed_lock.py implements MutexLock, Redis key by Redis key and
\* process by process, until it expires: outages of Redis, SETs that take effect after the
\* client has given up, expiry under a holder and crashes included.
THEOREM LockImplementsMutex == BookingSpec => LockIsMutex
<1>1. BookingInit => Mutex!Init
  BY DEF BookingInit, LockInit, Mutex!Init, holder, TheOne, HoldersOf
<1>2. /\ BookingTypeOK /\ LockHeld /\ ExclusiveLocks'
      /\ HolderAcquired /\ HolderAcquired'
      /\ [BookingNext]_bookingVars
      => [Mutex!Next]_holder
  <2> SUFFICES ASSUME BookingTypeOK, LockHeld, ExclusiveLocks',
                      HolderAcquired, HolderAcquired', [BookingNext]_bookingVars
               PROVE  [Mutex!Next]_holder
    OBVIOUS
  <2>0. LockTypeOK
    BY DEF BookingTypeOK
  <2>1. ASSUME NEW r \in Clients, Lock(r) PROVE Mutex!Next
    <3> DEFINE n == LockOf(r)'
    <3>1. /\ ~acquired[r] /\ r \notin outlived /\ outlived' = outlived
          /\ acquired' = [acquired EXCEPT ![r] = TRUE]
          /\ \A c \in Clients \ {r} : medium'[c] = medium[c]
      BY <2>0, <2>1 DEF Lock, AcquireRedis, AcquireMemory, FallBack, Goto, LockHeld, LockTypeOK,
         UnderWay, AtWork
    <3>2. Holding(r)' /\ n \in Locks
      BY <2>0, <3>1, LockAssumption DEF LockTypeOK, LockOf, Locks, Holding
    <3>3. \A c \in Clients \ {r} : /\ Holding(c)' <=> Holding(c)
                                   /\ LockOf(c)' = LockOf(c)
                                   /\ Holding(c)' => LockOf(c)' # n
      <4>1. \A c \in Clients : Holding(c)' /\ LockOf(c)' = n => c = r
        BY <3>2 DEF ExclusiveLocks
      <4> QED
        BY <2>0, <3>1, <4>1 DEF LockOf, LockTypeOK, Holding
    <3>4. HoldersOf(n) = {}
      BY <3>1, <3>3 DEF HoldersOf, Holding
    <3>5. \A m \in Locks : HoldersOf(m)' = IF m = n THEN {r} ELSE HoldersOf(m)
      <4> SUFFICES ASSUME NEW m \in Locks PROVE HoldersOf(m)' = IF m = n THEN {r} ELSE HoldersOf(m)
        OBVIOUS
      <4> HIDE DEF n
      <4>1. LockOf(r)' = n
        BY DEF n
      <4>2. \A c \in Clients \ {r} : c \in HoldersOf(m)' <=> m # n /\ c \in HoldersOf(m)
        BY <3>3 DEF HoldersOf, Holding
      <4>3. r \notin HoldersOf(m) /\ (r \in HoldersOf(m)' <=> m = n)
        BY <3>1, <3>2, <4>1 DEF HoldersOf, Holding
      <4>4. HoldersOf(m) \subseteq Clients /\ HoldersOf(m)' \subseteq Clients
        BY DEF HoldersOf
      <4> QED
        BY <4>2, <4>3, <4>4
    <3>6. holder[n] = NoClient
      BY <3>2, <3>4 DEF holder, TheOne
    <3>7. holder' = [holder EXCEPT ![n] = r]
      <4>1. holder'[n] = r
        BY <3>2 DEF HolderAcquired
      <4> HIDE DEF n
      <4>2. \A m \in Locks : m # n => holder'[m] = holder[m]
        BY <3>5 DEF holder
      <4>3. holder' = [m \in Locks |-> holder'[m]] /\ holder = [m \in Locks |-> holder[m]]
        BY DEF holder
      <4> QED
        BY <4>1, <4>2, <4>3
    <3> QED
      BY <3>2, <3>6, <3>7 DEF Mutex!Next, Mutex!Take
  <2>2. ASSUME NEW r \in Clients,
               \/ LockRefused(r) \/ FindFree(r) \/ FindTaken(r) \/ Invite(r) \/ InviteFails(r)
               \/ Confirm(r) \/ CommitFails(r) \/ Leave(r)
        PROVE Mutex!Next
    <3>1. /\ \A c \in Clients : acquired'[c] => acquired[c] /\ medium'[c] = medium[c]
          /\ outlived' = outlived
      <4>1. CASE LockRefused(r)
        <5>1. /\ acquired' = acquired /\ ~acquired[r] /\ outlived' = outlived
              /\ \A c \in Clients \ {r} : medium'[c] = medium[c]
          BY <2>0, <4>1 DEF LockRefused, RefusedByRedis, RefusedByMemory, FallBack, Goto, LockHeld,
             LockTypeOK, UnderWay, AtWork, lockVars
        <5> QED
          BY <5>1
      <4>2. CASE Leave(r)
        BY <2>0, <4>2 DEF Leave, Release, LockTypeOK
      <4>3. CASE FindFree(r) \/ FindTaken(r) \/ Invite(r) \/ InviteFails(r) \/ Confirm(r) \/ CommitFails(r)
        BY <4>3 DEF FindFree, FindTaken, Invite, InviteFails, Confirm, CommitFails, lockVars
      <4> QED
        BY <2>2, <4>1, <4>2, <4>3
    <3> QED
      BY <3>1, NobodyAcquires
  <2>3. ASSUME NEW p \in Processes, Die(p) PROVE Mutex!Next
    <3>1. /\ \A c \in Clients : acquired'[c] => acquired[c] /\ medium'[c] = medium[c]
          /\ outlived' = outlived
      BY <2>3 DEF Die, LosesProcess
    <3> QED
      BY <3>1, NobodyAcquires
  <2>4. CASE LockEvent
    <3>1. acquired' = acquired /\ medium' = medium /\ outlived \subseteq outlived'
      BY <2>4 DEF LockEvent, RedisFlips, Expire, ExpireEntry
    <3> QED
      BY <3>1, NobodyAcquires
  <2>5. CASE UNCHANGED bookingVars
    BY <2>5 DEF bookingVars, lockVars, holder, HoldersOf, LockOf
  <2> QED
    BY <2>1, <2>2, <2>3, <2>4, <2>5 DEF BookingNext, Progress
<1> QED
  <2>1. LockTypeOK /\ LockHeld => ExclusiveLocks /\ HolderAcquired
    BY Exclusive, HolderIs
  <2>2. BookingTypeOK => LockTypeOK
    BY DEF BookingTypeOK
  <2> QED
    BY <1>1, <1>2, <2>1, <2>2, BookingTypeCorrect, LockHeldHolds, PTL
    DEF BookingSpec, LockIsMutex, Mutex!Spec

-----------------------------------------------------------------------------
(* The bookings.                                                             *)

\* What a request has done tells where it is.
Ordered ==
  /\ \A r \in Clients : pc[r] = "invited" => r \in events
  /\ \A r \in appointments : pc[r] \in {"leaving", "over"}
  /\ \A r \in events : pc[r] \in {"invited", "leaving", "over"}

\* What the overlap check has found stays true until the request commits or its lock runs out,
\* but for requests that confirm without a lock.
CheckedFree ==
  \A r \in Clients \ late : pc[r] \in {"checked", "invited"} =>
    \A a \in appointments \ late : SameLock(a, r) => ~Overlaps(a, r)

BookInv == Ordered /\ CheckedFree /\ NoDoubleBooking /\ InvitesClashOnlyAfterFailure

LEMMA Symmetric ==
  ASSUME NEW r \in Clients, NEW s \in Clients
  PROVE  /\ Overlaps(r, s) => Overlaps(s, r)
         /\ SameLock(r, s) => SameLock(s, r)
  BY BookingAssumption DEF Overlaps, SameLock

\* Of two requests on one lock only one is at work, unless one of them is late.
LEMMA OneAtWork ==
  ASSUME LockHeld, ExclusiveLocks, NEW r \in Clients \ late, NEW s \in Clients \ late,
         SameLock(r, s), pc[r] \in AtWork, pc[s] \in AtWork
  PROVE  r = s
  BY DEF LockHeld, ExclusiveLocks, SameLock, Holding, UnderWay

\* A step that only moves requests on, or the lock of a request that has neither
\* event nor appointment, disturbs nothing.
LEMMA NothingBooked ==
  ASSUME BookingTypeOK, BookInv, UNCHANGED <<appointments, events>>, late \subseteq late',
         late' \subseteq late \cup {r \in Clients : pc[r] \in AtWork},
         \A r \in Clients :
           \/ pc'[r] = pc[r] /\ medium'[r] = medium[r]
           \/ pc[r] = "new" /\ pc'[r] \in {"locked", "over"}
           \/ pc[r] \in {"checked", "invited", "leaving"} /\ pc'[r] \in {"leaving", "over"} /\ medium'[r] = medium[r]
           \/ pc[r] = "locked" /\ pc'[r] \in {"leaving", "over"} /\ medium'[r] = medium[r]
  PROVE  BookInv'
<1> USE DEF BookingTypeOK, BookInv, Ordered
<1>1. Ordered'
  BY DEF Ordered
<1>2. \A r \in events \cup appointments : /\ medium'[r] = medium[r]
                                          /\ pc[r] \in {"leaving", "over"} => pc'[r] \in {"leaving", "over"}
  BY DEF Ordered
<1>3. \A r, s \in Clients : medium'[r] = medium[r] /\ medium'[s] = medium[s] =>
        (SameLock(r, s)' <=> SameLock(r, s))
  BY DEF SameLock, LockOf
<1>4. CheckedFree'
  <2> SUFFICES ASSUME NEW r \in Clients \ late', pc'[r] \in {"checked", "invited"},
                      NEW a \in appointments \ late', SameLock(a, r)'
               PROVE  ~Overlaps(a, r)
    BY DEF CheckedFree, Overlaps
  <2>1. pc[r] = pc'[r] /\ medium'[r] = medium[r]
    OBVIOUS
  <2>2. SameLock(a, r)
    BY <1>2, <1>3, <2>1
  <2> QED
    BY <2>1, <2>2 DEF CheckedFree
<1>5. NoDoubleBooking'
  BY <1>2, <1>3 DEF NoDoubleBooking, Overlaps
<1>6. InvitesClashOnlyAfterFailure'
  BY <1>2, <1>3 DEF InvitesClashOnlyAfterFailure, Overlaps, Failed
<1> QED
  BY <1>1, <1>4, <1>5, <1>6

\* A step that adds the event of r, whose check found nothing.
LEMMA EventAdded ==
  ASSUME BookingTypeOK, LockHeld, ExclusiveLocks, BookInv, NEW r \in Clients,
         pc[r] = "checked", events' = events \cup {r}, UNCHANGED <<appointments, medium, late>>,
         pc' = [pc EXCEPT ![r] = "invited"] \/ pc' = [pc EXCEPT ![r] = "leaving"]
  PROVE  BookInv'
<1> USE DEF BookingTypeOK, BookInv
<1>1. Ordered'
  BY DEF Ordered
<1>2. \A a, b \in Clients : (SameLock(a, b)' <=> SameLock(a, b)) /\ (Overlaps(a, b)' <=> Overlaps(a, b))
  BY DEF SameLock, LockOf, Overlaps
<1>3. \A a \in Clients \ {r} : pc'[a] = pc[a]
  OBVIOUS
<1>4. CheckedFree'
  BY <1>2, <1>3 DEF CheckedFree
<1>5. NoDoubleBooking'
  BY <1>2 DEF NoDoubleBooking
<1>6. ASSUME NEW s \in events, s # r, SameLock(r, s), Overlaps(r, s)
      PROVE  Failed(s)' \/ s \in late \/ r \in late
  <2>1. s \in Clients /\ SameLock(s, r) /\ Overlaps(s, r)
    BY <1>6, Symmetric
  <2> SUFFICES ASSUME s \notin late, r \notin late PROVE Failed(s)'
    OBVIOUS
  <2>2. s \notin appointments
    BY <2>1 DEF CheckedFree
  <2>3. pc[s] \notin AtWork
    BY <1>6, <2>1, OneAtWork DEF AtWork
  <2> QED
    BY <1>3, <1>6, <2>1, <2>2, <2>3 DEF Ordered, AtWork, Failed
<1>7. InvitesClashOnlyAfterFailure'
  <2> SUFFICES ASSUME NEW a \in events', NEW b \in events', a # b, SameLock(a, b), Overlaps(a, b)
               PROVE  \E q \in {a, b} : Failed(q)' \/ q \in late
    BY <1>2 DEF InvitesClashOnlyAfterFailure
  <2>1. CASE a = r
    BY <1>6, <2>1
  <2>2. CASE b = r
    <3>1. a \in events /\ SameLock(r, a) /\ Overlaps(r, a)
      BY <2>2, Symmetric
    <3> QED
      BY <1>6, <2>2, <3>1
  <2>3. CASE a # r /\ b # r
    BY <1>3, <2>3 DEF InvitesClashOnlyAfterFailure, Ordered, Failed
  <2> QED
    BY <2>1, <2>2, <2>3
<1> QED
  BY <1>1, <1>4, <1>5, <1>7

LEMMA BookInvHolds == BookingSpec => []BookInv
<1>1. BookingInit => BookInv
  BY DEF BookingInit, BookInv, Ordered, CheckedFree, NoDoubleBooking, InvitesClashOnlyAfterFailure
<1>2. BookingTypeOK /\ LockHeld /\ ExclusiveLocks /\ BookInv /\ [BookingNext]_bookingVars => BookInv'
  <2> SUFFICES ASSUME BookingTypeOK, LockHeld, ExclusiveLocks, BookInv, [BookingNext]_bookingVars
               PROVE  BookInv'
    OBVIOUS
  <2>1. ASSUME NEW r \in Clients, Lock(r) \/ LockRefused(r) PROVE BookInv'
    <3>1. /\ UNCHANGED <<appointments, events, late>>
          /\ pc[r] = "new" /\ pc'[r] \in {"locked", "over"}
          /\ \A s \in Clients \ {r} : pc'[s] = pc[s] /\ medium'[s] = medium[s]
      BY <2>1 DEF Lock, AcquireRedis, AcquireMemory, FallBack, LockRefused, RefusedByRedis,
         RefusedByMemory, Goto, lockVars, rowVars, BookingTypeOK, LockTypeOK
    <3> QED
      BY <3>1, NothingBooked
  <2>2. ASSUME NEW r \in Clients, FindFree(r) PROVE BookInv'
    <3>1. /\ pc[r] = "locked" /\ pc' = [pc EXCEPT ![r] = "checked"]
          /\ UNCHANGED <<lockVars, appointments, events, late>>
          /\ \A a \in appointments : ~Overlaps(a, r)
      BY <2>2 DEF FindFree, Goto, rowVars
    <3>2. \A a, b \in Clients : (SameLock(a, b)' <=> SameLock(a, b)) /\ (Overlaps(a, b)' <=> Overlaps(a, b))
      BY <3>1 DEF SameLock, LockOf, Overlaps, lockVars
    <3> USE DEF BookingTypeOK, BookInv
    <3>3. Ordered'
      BY <3>1 DEF Ordered
    <3>4. CheckedFree'
      BY <3>1, <3>2 DEF CheckedFree
    <3>5. NoDoubleBooking'
      BY <3>1, <3>2 DEF NoDoubleBooking
    <3>6. InvitesClashOnlyAfterFailure'
      BY <3>1, <3>2 DEF InvitesClashOnlyAfterFailure, Ordered, Failed
    <3> QED
      BY <3>3, <3>4, <3>5, <3>6
  <2>3. ASSUME NEW r \in Clients, Invite(r) PROVE BookInv'
    BY <2>3, EventAdded DEF Invite, Goto, lockVars
  <2>4. ASSUME NEW r \in Clients, InviteFails(r) PROVE BookInv'
    <3>1. CASE events' = events
      BY <2>4, <3>1, NothingBooked DEF InviteFails, Goto, lockVars, BookingTypeOK
    <3>2. CASE events' = events \cup {r}
      BY <2>4, <3>2, EventAdded DEF InviteFails, Goto, lockVars
    <3> QED
      BY <2>4, <3>1, <3>2 DEF InviteFails
  <2>5. ASSUME NEW r \in Clients, Confirm(r) PROVE BookInv'
    <3>1. /\ pc[r] = "invited" /\ pc' = [pc EXCEPT ![r] = "leaving"]
          /\ UNCHANGED <<lockVars, events, late>>
          /\ appointments' = appointments \cup {r}
      BY <2>5 DEF Confirm, Goto
    <3>2. \A a, b \in Clients : (SameLock(a, b)' <=> SameLock(a, b)) /\ (Overlaps(a, b)' <=> Overlaps(a, b))
      BY <3>1 DEF SameLock, LockOf, Overlaps, lockVars
    <3> USE DEF BookingTypeOK, BookInv
    <3>3. Ordered'
      BY <3>1 DEF Ordered
    <3>4. r \notin late =>
            \A s \in Clients \ late : pc[s] \in {"checked", "invited"} /\ SameLock(r, s) => s = r
      BY <3>1, OneAtWork DEF AtWork
    <3>5. CheckedFree'
      BY <3>1, <3>2, <3>4 DEF CheckedFree
    <3>6. r \notin late => \A a \in appointments \ late :
            SameLock(a, r) \/ SameLock(r, a) => ~Overlaps(a, r) /\ ~Overlaps(r, a)
      BY <3>1, Symmetric DEF CheckedFree
    <3>7. NoDoubleBooking'
      BY <3>1, <3>2, <3>6 DEF NoDoubleBooking
    <3>8. InvitesClashOnlyAfterFailure'
      BY <3>1, <3>2 DEF InvitesClashOnlyAfterFailure, Ordered, Failed
    <3> QED
      BY <3>3, <3>5, <3>7, <3>8
  <2>6. ASSUME NEW r \in Clients, FindTaken(r) \/ CommitFails(r) \/ Leave(r) PROVE BookInv'
    <3>1. /\ UNCHANGED <<appointments, events, medium, late>>
          /\ pc[r] \in {"locked", "invited", "leaving"} /\ pc'[r] \in {"leaving", "over"}
          /\ \A s \in Clients \ {r} : pc'[s] = pc[s]
      BY <2>6 DEF FindTaken, CommitFails, Leave, Release, Goto, lockVars, rowVars, BookingTypeOK
    <3> QED
      BY <3>1, NothingBooked
  <2>7. ASSUME NEW p \in Processes, Die(p) PROVE BookInv'
    <3>1. /\ UNCHANGED <<appointments, events, medium, late>>
          /\ \A r \in Clients : pc'[r] = pc[r] \/ (pc[r] \in UnderWay /\ pc'[r] = "over")
      BY <2>7 DEF Die, LosesProcess, rowVars
    <3> QED
      BY <3>1, NothingBooked DEF UnderWay, AtWork
  <2>8. CASE LockEvent \/ UNCHANGED bookingVars
    <3>1. /\ UNCHANGED <<appointments, events, medium, pc>>
          /\ late \subseteq late' /\ late' \subseteq late \cup {r \in Clients : pc[r] \in AtWork}
      BY <2>8 DEF LockEvent, MarkLate, RedisFlips, Expire, ExpireEntry, bookingVars, rowVars, lockVars,
         BookingTypeOK, LockTypeOK
    <3> QED
      BY <3>1, NothingBooked
  <2> QED
    BY <2>1, <2>2, <2>3, <2>4, <2>5, <2>6, <2>7, <2>8 DEF BookingNext, Progress
<1>3. BookingTypeOK /\ LockHeld => ExclusiveLocks
  BY Exclusive DEF BookingTypeOK
<1> QED
  BY <1>1, <1>2, <1>3, BookingTypeCorrect, LockHeldHolds, PTL DEF BookingSpec

\* Of the requests one lock serialises, overlapping meetings are both confirmed only if one
\* request's lock ran out before it had confirmed.
THEOREM OneMeetingPerSlot == BookingSpec => []NoDoubleBooking
BY BookInvHolds, PTL DEF BookInv

\* Nor do two invites go out for one slot, unless one of the requests failed behind its invite
\* or was late.
THEOREM OneInvitePerSlot == BookingSpec => []InvitesClashOnlyAfterFailure
BY BookInvHolds, PTL DEF BookInv

\* A release takes no other client's key or entry away, even where locks expire under their
\* holders and are taken by others.
THEOREM ReleaseTakesOwnKey == BookingSpec => ReleaseKeepsOthers
<1>1. BookingTypeOK /\ [BookingNext]_bookingVars =>
        [\A c \in Clients : acquired[c] /\ ~acquired'[c] =>
           /\ \A k \in Keys : redis[k] \in Clients \ {c} => redis'[k] = redis[k]
           /\ \A d \in Clients \ {c} : acquired'[d] /\ Entry(d) = d => Entry(d)' = d]_bookingVars
  <2> SUFFICES ASSUME BookingTypeOK, [BookingNext]_bookingVars,
                      NEW c \in Clients, acquired[c], ~acquired'[c]
               PROVE  /\ \A k \in Keys : redis[k] \in Clients \ {c} => redis'[k] = redis[k]
                      /\ \A d \in Clients \ {c} : acquired'[d] /\ Entry(d) = d => Entry(d)' = d
    OBVIOUS
  <2> USE DEF BookingTypeOK, LockTypeOK
  <2>1. ASSUME NEW r \in Clients, Lock(r) \/ LockRefused(r) PROVE FALSE
    BY <2>1 DEF Lock, AcquireRedis, AcquireMemory, LockRefused, RefusedByRedis, RefusedByMemory, lockVars
  <2>2. ASSUME NEW r \in Clients,
               FindFree(r) \/ FindTaken(r) \/ Invite(r) \/ InviteFails(r) \/ Confirm(r) \/ CommitFails(r)
        PROVE FALSE
    BY <2>2 DEF FindFree, FindTaken, Invite, InviteFails, Confirm, CommitFails, lockVars
  <2>3. ASSUME NEW r \in Clients, Leave(r)
        PROVE  /\ \A k \in Keys : redis[k] \in Clients \ {c} => redis'[k] = redis[k]
               /\ \A d \in Clients \ {c} : Entry(d) = d => Entry(d)' = d
    <3>1. r = c
      BY <2>3 DEF Leave, Release
    <3>2. \A k \in Keys : redis[k] \in Clients \ {c} => redis'[k] = redis[k]
      BY <2>3, <3>1, LockAssumption DEF Leave, Release, KeyAfterRelease
    <3>3. \A d \in Clients \ {c} : Entry(d) = d => Entry(d)' = d
      BY <2>3, <3>1, LockAssumption DEF Leave, Release, Entry
    <3> QED
      BY <3>2, <3>3
  <2>4. ASSUME NEW p \in Processes, Die(p)
        PROVE  /\ redis' = redis
               /\ \A d \in Clients : acquired'[d] => Entry(d)' = Entry(d)
    BY <2>4, LockAssumption DEF Die, LosesProcess, Entry
  <2>5. CASE LockEvent
    BY <2>5 DEF LockEvent, RedisFlips, Expire, ExpireEntry
  <2>6. CASE UNCHANGED bookingVars
    BY <2>6 DEF bookingVars, lockVars
  <2> QED
    BY <2>1, <2>2, <2>3, <2>4, <2>5, <2>6 DEF BookingNext, Progress
<1> QED
  BY <1>1, BookingTypeCorrect, PTL DEF BookingSpec, ReleaseKeepsOthers

=============================================================================
