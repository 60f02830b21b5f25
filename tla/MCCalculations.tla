---------------------------- MODULE MCCalculations ----------------------------
(***************************************************************************)
(* Inputs for Calculations: the values on both sides of every boundary.     *)
(***************************************************************************)
EXTENDS Calculations

MCCounts  == {9, 50}
MCMoments == {Clock(d, h, m) : d \in 0 .. 7, h \in {0, 8, 9, 16, 17, 23}, m \in {0, 5, 6, 59}}
MCDelayDays   == {0, 1, 2, 6}
MCDelayHours  == {0, 1, 7, 8}
MCJitters     == {5, 45}
MCConfidences == {700, 845, 849, 850, 1000}
MCClaims == {[tokens |-> 0, found |-> 0], [tokens |-> 4, found |-> 2], [tokens |-> 3, found |-> 1]}
MCTexts  == UNION {[1 .. n -> 1 .. 6] : n \in 0 .. 4}

\* From a Thursday, a Friday and a Saturday on, with a meeting of each kind around the days searched.
MCMeetings(now, at) == {[from |-> now + o, to |-> now + o + 2, at |-> at] : o \in -2 .. 26}
MCSearches ==
  UNION {{[now |-> n, days_ahead |-> d, answers |-> a, meetings |-> {m1, m2}] :
            d \in 1 .. 2, a \in BOOLEAN,
            m1 \in MCMeetings(n, "calendar"), m2 \in MCMeetings(n, "appointments")} :
           n \in {d * DAY + h : d \in 3 .. 5, h \in {0, 5, 11}}}
MCAllowedDays == 0 .. 4

=============================================================================
