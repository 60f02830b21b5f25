------------------------------- MODULE SendTime -------------------------------
(***************************************************************************)
(* CampaignScheduler.calculate_next_send_time (packages/campaign/           *)
(* scheduler.py).  A time is the prospect's local wall clock in minutes      *)
(* since a Monday's midnight: the code compares and builds wall-clock times  *)
(* of one zone, the conversions from and to UTC are Python's.               *)
(***************************************************************************)
EXTENDS Integers, FiniteSets

CONSTANTS start_hour, end_hour

ASSUME HoursAssumption == start_hour \in 0 .. 23 /\ end_hour \in 1 .. 24 /\ start_hour < end_hour

Day(time)  == time \div 1440
Hour(time) == (time % 1440) \div 60
Clock(day, hour, minute) == day * 1440 + hour * 60 + minute

Weekend(day) == day % 7 >= 5

\* The day itself, or the Monday after the weekend it is in.
Weekday(day) == IF Weekend(day) THEN day - (day % 7) + 7 ELSE day

\* One business day on for each day of delay; without a delay the day stays.
Advanced(day, delay_days) ==
  LET on[n \in 0 .. delay_days] == IF n = 0 THEN day ELSE Weekday(on[n - 1] + 1)
  IN on[delay_days]

\* A faulty hour: one that may be the closing hour.
SlotToClosing(day, delay_hours, jitter) ==
  IF start_hour + delay_hours > end_hour
  THEN Clock(Weekday(day + 1), start_hour, jitter)
  ELSE Clock(day, start_hour + delay_hours, jitter)

\* The hours of delay count from the opening hour; past closing it is the next opening.
Slot(day, delay_hours, jitter) ==
  IF start_hour + delay_hours >= end_hour
  THEN Clock(Weekday(day + 1), start_hour, jitter)
  ELSE Clock(day, start_hour + delay_hours, jitter)

\* A faulty rule that moves a passed slot on by a week, not by a day.
NotPastWeekLater(slot, now, jitter) ==
  IF slot <= now THEN Clock(Weekday(Day(slot) + 7), start_hour, jitter) ELSE slot

NotPast(slot, now, jitter) ==
  IF slot <= now THEN Clock(Weekday(Day(slot) + 1), start_hour, jitter) ELSE slot

calculate_next_send_time(now, delay_days, delay_hours, jitter) ==
  NotPast(Slot(Weekday(Advanced(Day(now), delay_days)), delay_hours, jitter), now, jitter)

=============================================================================
