----------------------------- MODULE EmailOutbox -----------------------------
(***************************************************************************)
(* What the send lock promises for one of its keys, whoever sends under it: *)
(* one dispatch at a time, at most one email of it, and a message on record *)
(* only for an email the provider took.  The promise ends when the lock     *)
(* becomes free under a dispatch: emails and messages then come in any      *)
(* order.  Abstract: SendService is shown to implement it.                  *)
(***************************************************************************)
EXTENDS Naturals

CONSTANT Keys

VARIABLES
  outbox,    \* "free", "held" by a dispatch, "delivered" and not yet on record, "lapsed"
  handed,    \* emails the provider took, per key
  filed      \* messages on record, per key

outboxVars == <<outbox, handed, filed>>

OutboxInit ==
  /\ outbox = [key \in Keys |-> "free"]
  /\ handed = [key \in Keys |-> 0]
  /\ filed = [key \in Keys |-> 0]

Change(key, from, to) == outbox[key] \in from /\ outbox' = [outbox EXCEPT ![key] = to]
OneMore(count, key) == [count EXCEPT ![key] = @ + 1]

Hold(key) == Change(key, {"free"}, "held") /\ UNCHANGED <<handed, filed>>

Deliver(key) ==
  /\ Change(key, {"held"}, "delivered")
  /\ handed' = OneMore(handed, key)
  /\ UNCHANGED filed

File(key) ==
  /\ Change(key, {"delivered"}, "free")
  /\ filed' = OneMore(filed, key)
  /\ UNCHANGED handed

GiveUp(key) == Change(key, {"held", "delivered"}, "free") /\ UNCHANGED <<handed, filed>>

Lapse(key) == Change(key, {"held", "delivered"}, "lapsed") /\ UNCHANGED <<handed, filed>>

\* Nothing is promised any more.
Stray(key) ==
  /\ outbox[key] = "lapsed" /\ UNCHANGED outbox
  /\ \/ handed' = OneMore(handed, key) /\ UNCHANGED filed
     \/ filed' = OneMore(filed, key) /\ UNCHANGED handed

OutboxNext ==
  \E key \in Keys :
    Hold(key) \/ Deliver(key) \/ File(key) \/ GiveUp(key) \/ Lapse(key) \/ Stray(key)

OutboxSpec == OutboxInit /\ [][OutboxNext]_outboxVars
=============================================================================
