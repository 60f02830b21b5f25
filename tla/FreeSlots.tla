------------------------------- MODULE FreeSlots -------------------------------
(***************************************************************************)
(* AvailabilityEngine.find_available_slots (packages/calendar/              *)
(* availability.py) as GET /calendar/slots calls it: the search begins now. *)
(* Times count from a Monday's midnight in the host's zone, in units of     *)
(* which a day has DAY; the zone has one offset (no clock change).          *)
(***************************************************************************)
EXTENDS Lists, FiniteSetsExt

CONSTANTS
  DAY,                    \* units in a day
  work_start, work_end,   \* the host's working hours, in units of the day
  allowed_days,           \* the weekdays the host works, Monday 0
  duration, buffer,       \* length of a slot, and what is kept free around a meeting
  notice,                 \* the two hours before a slot
  max_slots

ASSUME SlotAssumption ==
  /\ DAY \in Nat \ {0}
  /\ work_start \in 0 .. DAY /\ work_end \in 0 .. DAY
  /\ allowed_days \subseteq 0 .. 6
  /\ duration \in Nat \ {0} /\ buffer \in Nat /\ notice \in Nat
  /\ max_slots \in Nat \ {0}

\* What the provider and the appointments table are asked for: meetings in the search window.
Window(meetings, now, days_ahead) ==
  {m \in meetings : m.from < now + days_ahead * DAY /\ m.to > now}

\* A provider that fails counts as one without meetings.
BusyBlocks(meetings, now, days_ahead, answers) ==
  {m \in Window(meetings, now, days_ahead) : m.at = "appointments" \/ answers}

\* A faulty buffer, kept after a meeting only.
ConflictAfter(start, m) == start < m.to + buffer /\ start + duration > m.from
Conflict(start, m) == start < m.to + buffer /\ start + duration > m.from - buffer

\* The starts of a working day, one slot after the other.
Starts(day) ==
  {start \in day * DAY + work_start .. day * DAY + work_end - duration :
     (start - work_start - day * DAY) % duration = 0}

\* A search that forgets the day it begins on.
DaysAfter(now, days_ahead) ==
  {d \in now \div DAY + 1 .. now \div DAY + days_ahead : d % 7 \in allowed_days}
Days(now, days_ahead) ==
  {d \in now \div DAY .. now \div DAY + days_ahead : d % 7 \in allowed_days}

Open(busy, now, days_ahead) ==
  {start \in UNION {Starts(d) : d \in Days(now, days_ahead)} :
     start > now + notice /\ \A m \in busy : ~Conflict(start, m)}

\* The earliest of them, in order.
find_available_slots(meetings, now, days_ahead, answers) ==
  LET open == Open(BusyBlocks(meetings, now, days_ahead, answers), now, days_ahead)
  IN [n \in 1 .. Min({max_slots, Cardinality(open)}) |-> Nth(open, n)]

=============================================================================
