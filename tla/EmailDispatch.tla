---------------------------- MODULE EmailDispatch ----------------------------
(***************************************************************************)
(* EmailSendService.dispatch_email (packages/email/send_service.py) as the  *)
(* sequence engine sees it: a campaign email or an automatic reply goes to  *)
(* the provider under the lock send_lock:{workspace}:{lead}, after          *)
(* suppression has been checked again.  Mailbox quotas and the lock itself  *)
(* (its TTL, its fallback) are not looked into here.                        *)
(***************************************************************************)
EXTENDS SequenceStore

VARIABLES
  sending,   \* leads whose send lock is held
  threads,   \* leads with a committed email thread
  late       \* emails accepted for a lead already suppressed (up to CAP)

dispatchVars == <<sending, threads, late>>

CAP == 2
Counted(n) == IF n < CAP THEN n + 1 ELSE n

DispatchTypeOK ==
  /\ sending \subseteq Leads
  /\ threads \subseteq Leads
  /\ late \in [Leads -> 0 .. CAP]

DispatchInit ==
  /\ sending = {}
  /\ threads = {}
  /\ late = [l \in Leads |-> 0]

-----------------------------------------------------------------------------

\* A faulty check: the lock is not waited for.
DispatchableUnlocked(l) == ~is_email_suppressed(l)

Dispatchable(l) == l \notin sending /\ ~is_email_suppressed(l)

\* The lock is taken and the checks passed; the provider is called next.
BeginDispatch(l) ==
  /\ Dispatchable(l)
  /\ sending' = sending \cup {l}
  /\ UNCHANGED <<threads, late>>

\* The provider takes the email; "recorded" tells whether the commit of the
\* message and its thread succeeds before the lock is released.
Accept(l, recorded) ==
  /\ sending' = sending \ {l}
  /\ threads' = IF recorded THEN threads \cup {l} ELSE threads
  /\ late' = IF is_email_suppressed(l) THEN [late EXCEPT ![l] = Counted(@)] ELSE late

\* The dispatch fails before the provider takes anything; of a worker that
\* dies, the lock's key expires.
AbortDispatch(l) ==
  /\ sending' = sending \ {l}
  /\ UNCHANGED <<threads, late>>

=============================================================================
