------------------------------- MODULE MutexLock -------------------------------
(***************************************************************************)
(* What a lock promises its clients: each lock has at most one holder, only *)
(* a free lock is taken.  A lock may become free while its holder works, and *)
(* several at once, because a process may die with everything it holds.     *)
(***************************************************************************)
CONSTANTS Locks, Clients, NoClient

VARIABLE holder   \* holder[n]: the client that holds lock n, or NoClient

Init == holder = [n \in Locks |-> NoClient]

Take(c, n) ==
  /\ holder[n] = NoClient
  /\ holder' = [holder EXCEPT ![n] = c]

Free(ns) ==
  holder' = [n \in Locks |-> IF n \in ns THEN NoClient ELSE holder[n]]

Next ==
  \/ \E c \in Clients, n \in Locks : Take(c, n)
  \/ \E ns \in SUBSET Locks : Free(ns)

Spec == Init /\ [][Next]_holder

=============================================================================
