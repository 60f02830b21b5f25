---------------------------- MODULE DistributedLock ----------------------------
(***************************************************************************)
(* packages/common/distributed_lock.py: a lock that is a Redis key with a   *)
(* time to live, or an entry in the memory of the process when Redis does   *)
(* not answer within 50 ms.  A client is one DistributedLock object, used   *)
(* once: its token is its identity.                                         *)
(***************************************************************************)
EXTENDS Naturals

CONSTANTS
  Processes,    \* API or worker processes, each with a registry of its own
  Clients,      \* DistributedLock objects
  processOf,    \* processOf[c]: the process c lives in
  Keys,         \* lock keys
  keyOf,        \* keyOf[c]: the key c asks for
  NoClient,
  LockFaults    \* what may go wrong with the lock

ASSUME LockAssumption ==
  /\ processOf \in [Clients -> Processes]
  /\ keyOf \in [Clients -> Keys]
  /\ NoClient \notin Clients
  /\ "redis" \notin Processes
  /\ LockFaults \subseteq {"outage", "late_set", "expiry"}

VARIABLES
  redisUp,    \* Redis answers in time
  redis,      \* redis[k]: whose token the key holds
  memory,     \* memory[p][k]: whose token _MEMORY_LOCKS of process p holds
  acquired,   \* acquired[c]: _acquired
  medium,     \* medium[c]: where c took its lock, kept after the release
  outlived    \* clients whose lock ran out while they worked

lockVars == <<redisUp, redis, memory, acquired, medium, outlived>>

Owners == Clients \cup {NoClient}

LockTypeOK ==
  /\ redisUp \in BOOLEAN
  /\ redis \in [Keys -> Owners]
  /\ memory \in [Processes -> [Keys -> Owners]]
  /\ acquired \in [Clients -> BOOLEAN]
  /\ medium \in [Clients -> {"none", "redis", "memory"}]
  /\ outlived \subseteq Clients

LockInit ==
  /\ redisUp \in BOOLEAN
  /\ redis = [k \in Keys |-> NoClient]
  /\ memory = [p \in Processes |-> [k \in Keys |-> NoClient]]
  /\ acquired = [c \in Clients |-> FALSE]
  /\ medium = [c \in Clients |-> "none"]
  /\ outlived = {}

-----------------------------------------------------------------------------
(* acquire                                                                   *)

Entry(c) == memory[processOf[c]][keyOf[c]]

\* A faulty SET, without NX.
AcquireOver(c) ==
  /\ redisUp
  /\ redis' = [redis EXCEPT ![keyOf[c]] = c]
  /\ acquired' = [acquired EXCEPT ![c] = TRUE]
  /\ medium' = [medium EXCEPT ![c] = "redis"]
  /\ UNCHANGED <<redisUp, memory, outlived>>

\* SET NX EX succeeds.
AcquireRedis(c) ==
  /\ redisUp
  /\ redis[keyOf[c]] = NoClient
  /\ redis' = [redis EXCEPT ![keyOf[c]] = c]
  /\ acquired' = [acquired EXCEPT ![c] = TRUE]
  /\ medium' = [medium EXCEPT ![c] = "redis"]
  /\ UNCHANGED <<redisUp, memory, outlived>>

\* The ping or the SET fails or times out, and the client turns to the memory of
\* its process.  A SET given up by the client may still take effect in Redis.
FallBack(c) ==
  /\ ~redisUp \/ "late_set" \in LockFaults
  /\ medium' = [medium EXCEPT ![c] = "memory"]
  /\ \/ UNCHANGED redis
     \/ /\ redisUp
        /\ redis[keyOf[c]] = NoClient
        /\ redis' = [redis EXCEPT ![keyOf[c]] = c]

AcquireMemory(c) ==
  /\ FallBack(c)
  /\ Entry(c) = NoClient
  /\ memory' = [memory EXCEPT ![processOf[c]][keyOf[c]] = c]
  /\ acquired' = [acquired EXCEPT ![c] = TRUE]
  /\ UNCHANGED <<redisUp, outlived>>

\* All tries have failed; waiting between tries changes nothing.
RefusedByRedis(c) ==
  /\ redisUp
  /\ redis[keyOf[c]] # NoClient
  /\ UNCHANGED lockVars

RefusedByMemory(c) ==
  /\ FallBack(c)
  /\ Entry(c) # NoClient
  /\ UNCHANGED <<redisUp, memory, acquired, outlived>>

-----------------------------------------------------------------------------
(* release, expiry and failures                                              *)

\* A faulty release: a DEL without the comparison of tokens.
DeleteBlindly(c, k) == IF redisUp /\ medium[c] = "redis" THEN NoClient ELSE redis[k]

\* The Lua script deletes the key only if it holds the client's token; when Redis
\* does not answer, the key is left to its time to live.
KeyAfterRelease(c, k) ==
  IF redisUp /\ medium[c] = "redis" /\ redis[k] = c THEN NoClient ELSE redis[k]

Release(c) ==
  /\ redis' = [redis EXCEPT ![keyOf[c]] = KeyAfterRelease(c, keyOf[c])]
  /\ memory' = IF medium[c] = "memory" /\ Entry(c) = c
               THEN [memory EXCEPT ![processOf[c]][keyOf[c]] = NoClient]
               ELSE memory
  /\ acquired' = [acquired EXCEPT ![c] = FALSE]
  /\ UNCHANGED <<redisUp, medium, outlived>>

Holds(c, where) == acquired[c] /\ medium[c] = where


\* A key expires that nobody will delete any more, and, since the time to live is as long
\* as one answer of a provider may take, the key of a client that still works.
MayExpire(k) == Holds(redis[k], "redis") => "expiry" \in LockFaults

Expire(k) ==
  /\ redis[k] # NoClient
  /\ MayExpire(k)
  /\ redis' = [redis EXCEPT ![k] = NoClient]
  /\ outlived' = outlived \cup {c \in Clients : redis[k] = c /\ Holds(c, "redis")}
  /\ UNCHANGED <<redisUp, memory, acquired, medium>>

\* An entry past its time to live counts as none.
ExpireEntry(p, k) ==
  /\ "expiry" \in LockFaults
  /\ memory[p][k] # NoClient
  /\ memory' = [memory EXCEPT ![p][k] = NoClient]
  /\ outlived' = outlived \cup {c \in Clients : memory[p][k] = c /\ Holds(c, "memory")}
  /\ UNCHANGED <<redisUp, redis, acquired, medium>>

\* Redis becomes unreachable, or reachable again with the keys it had.
RedisFlips ==
  /\ "outage" \in LockFaults
  /\ redisUp' = ~redisUp
  /\ UNCHANGED <<redis, memory, acquired, medium, outlived>>

\* A process dies: its registry is gone, its keys in Redis stay.
LosesProcess(p) ==
  /\ memory' = [memory EXCEPT ![p] = [k \in Keys |-> NoClient]]
  /\ acquired' = [c \in Clients |-> acquired[c] /\ processOf[c] # p]
  /\ UNCHANGED <<redisUp, redis, medium, outlived>>

-----------------------------------------------------------------------------
(* The lock a client holds until it expires: a Redis key is shared by all    *)
(* processes, an entry in memory is the process's own.                       *)

Locks == Keys \X (Processes \cup {"redis"})

LockOf(c) == <<keyOf[c], IF medium[c] = "redis" THEN "redis" ELSE processOf[c]>>

HoldersOf(n) == {c \in Clients : acquired[c] /\ c \notin outlived /\ LockOf(c) = n}

TheOne(cs) == IF cs = {} THEN NoClient ELSE CHOOSE c \in cs : TRUE

holder == [n \in Locks |-> TheOne(HoldersOf(n))]

Mutex == INSTANCE MutexLock WITH Locks <- Locks, Clients <- Clients, NoClient <- NoClient, holder <- holder

=============================================================================
