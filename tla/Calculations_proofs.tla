-------------------------- MODULE Calculations_proofs --------------------------
(***************************************************************************)
(* What the pure calculations return for every input: business hours of any *)
(* length, any delay and moment, any lead and draft, texts of any length,    *)
(* and calendars of any kind.  A decision is a function of its inputs        *)
(* (Decided), so each property is a lemma about its operator.  The walk over *)
(* business days and the loop over paragraphs are inductions along their     *)
(* numbers (DataLemmas).                                                     *)
(***************************************************************************)
EXTENDS Calculations, DataLemmas

-----------------------------------------------------------------------------
(* Send times *)

\* A clock time on a day: the day and the hour it was built from.
LEMMA ClockIs ==
  ASSUME NEW d \in Int, NEW h \in 0 .. 23, NEW m \in 0 .. 59
  PROVE  /\ Clock(d, h, m) \in Int
         /\ Day(Clock(d, h, m)) = d
         /\ Hour(Clock(d, h, m)) = h
BY DEF Clock, Day, Hour

\* Whatever the clock says, the later day is the later time.
LEMMA ClockOrder ==
  ASSUME NEW d \in Int, NEW h \in 0 .. 23, NEW m \in 0 .. 59, NEW time \in Int
  PROVE  /\ Day(time) \in Int
         /\ d > Day(time) => Clock(d, h, m) > time
         /\ d < Day(time) => Clock(d, h, m) < time
BY DEF Clock, Day

\* The first weekday at or after a day.
LEMMA WeekdayIs ==
  ASSUME NEW d \in Int
  PROVE  /\ Weekday(d) \in Int /\ Weekday(d) >= d /\ ~Weekend(Weekday(d))
         /\ \A e \in Int : e >= d /\ ~Weekend(e) => e >= Weekday(d)
BY DEF Weekday, Weekend

\* A later day's weekday is no earlier.
LEMMA WeekdayOrder ==
  ASSUME NEW d \in Int, NEW e \in Int, d <= e
  PROVE  Weekday(d) <= Weekday(e)
<1>1. Weekday(d) \in Int /\ Weekday(e) \in Int /\ Weekday(e) >= d /\ ~Weekend(Weekday(e))
  BY WeekdayIs
<1> QED
  BY <1>1, WeekdayIs

\* The business days after one day, up to another.
Business(from, to) == {d \in from + 1 .. to : ~Weekend(d)}

\* A longer stretch has no fewer business days, and one more when it ends with a new one.
LEMMA BusinessGrows ==
  ASSUME NEW from \in Int, NEW a \in Int, NEW b \in Int, a <= b
  PROVE  /\ Cardinality(Business(from, a)) \in Nat /\ Cardinality(Business(from, b)) \in Nat
         /\ Cardinality(Business(from, a)) <= Cardinality(Business(from, b))
         /\ from <= a /\ a < b /\ ~Weekend(b) =>
              Cardinality(Business(from, b)) >= Cardinality(Business(from, a)) + 1
<1>1. IsFiniteSet(Business(from, b))
  <2>1. IsFiniteSet(from + 1 .. b)
    BY FS_Interval
  <2>2. Business(from, b) \in SUBSET (from + 1 .. b)
    BY DEF Business
  <2> QED
    BY <2>1, <2>2, FS_Subset
<1>2. Business(from, a) \in SUBSET Business(from, b)
  BY DEF Business
<1>3. /\ IsFiniteSet(Business(from, a))
      /\ Cardinality(Business(from, a)) <= Cardinality(Business(from, b))
      /\ Cardinality(Business(from, a)) \in Nat /\ Cardinality(Business(from, b)) \in Nat
  BY <1>1, <1>2, FS_Subset, FS_CardinalityType
<1>4. ASSUME from <= a, a < b, ~Weekend(b)
      PROVE  Cardinality(Business(from, b)) # Cardinality(Business(from, a))
  <2>1. b \in Business(from, b) /\ b \notin Business(from, a)
    BY <1>4 DEF Business
  <2> QED
    BY <1>1, <1>2, <2>1, FS_Subset
<1> QED
  BY <1>3, <1>4

\* A walk of n steps, each to the weekday after.
Walks(f, day, n) == /\ f[0] = day /\ Advanced(day, n) = f[n]
                    /\ \A i \in 1 .. n : f[i] = Weekday(f[i - 1] + 1)

\* Advanced is the end of a walk from one business day to the next.
LEMMA AdvancedWalks ==
  ASSUME NEW day \in Int, NEW n \in Nat
  PROVE  \E f \in [0 .. n -> Int] : Walks(f, day, n)
<1> DEFINE S == Int   N == n   start == day
           step == [i \in 1 .. N |-> [d \in S |-> Weekday(d + 1)]]
           on == CHOOSE g : g = [k \in 0 .. n |-> IF k = 0 THEN day ELSE Weekday(g[k - 1] + 1)]
<1>1. step \in [1 .. N -> [S -> S]] /\ start \in S /\ N \in Nat
  <2>1. \A d \in S : Weekday(d + 1) \in S
    BY WeekdayIs
  <2> QED
    BY <2>1
<1>2. PICK f \in [0 .. N -> S] : Iterates(f, N, start, step)
  <2> HIDE DEF S, N, start, step
  <2> QED
    BY <1>1, IterationExists
<1>3. f[0] = day /\ \A i \in 1 .. n : f[i] = Weekday(f[i - 1] + 1)
  <2>1. f[0] = day /\ \A i \in 1 .. n : f[i] = step[i][f[i - 1]]
    BY <1>2 DEF Iterates
  <2>2. \A i \in 1 .. n : i - 1 \in 0 .. n
    OBVIOUS
  <2> QED
    BY <2>1, <2>2
<1>4. f = [k \in 0 .. n |-> IF k = 0 THEN day ELSE Weekday(f[k - 1] + 1)]
  <2> DEFINE h == [k \in 0 .. n |-> IF k = 0 THEN day ELSE Weekday(f[k - 1] + 1)]
  <2>1. ASSUME NEW k \in 0 .. n PROVE f[k] = h[k]
    BY <1>3
  <2>2. h = [k \in 0 .. n |-> h[k]] /\ f = [k \in 0 .. n |-> f[k]]
    OBVIOUS
  <2> HIDE DEF h
  <2>3. f = h
    BY <2>1, <2>2
  <2> QED
    BY <2>3 DEF h
<1>5. on = [k \in 0 .. n |-> IF k = 0 THEN day ELSE Weekday(on[k - 1] + 1)]
  BY <1>4
<1>6. Advanced(day, n) = on[n]
  BY DEF Advanced
<1> HIDE DEF on
<1> DEFINE same == {k \in 0 .. n : on[k] = f[k]}
<1>7. 0 \in same
  BY <1>3, <1>5
<1>8. ASSUME NEW k \in 0 .. N - 1, k \in same PROVE k + 1 \in same
  <2>1. k + 1 \in 0 .. n /\ k + 1 \in 1 .. n /\ (k + 1) - 1 = k /\ k + 1 # 0
    OBVIOUS
  <2>2. on[k + 1] = Weekday(on[k] + 1) /\ f[k + 1] = Weekday(f[k] + 1)
    BY <1>3, <1>5, <2>1
  <2> QED
    BY <1>8, <2>1, <2>2
<1>9. n \in same
  <2> HIDE DEF same
  <2>1. N \in Int /\ 0 \in Int /\ \A k \in 0 .. N - 1 : k \in same => k + 1 \in same
    BY <1>8
  <2> HIDE DEF N
  <2>2. 0 .. N \subseteq same
    BY <1>7, <2>1, ReachedBySteps
  <2> QED
    BY <2>2 DEF N
<1> QED
  BY <1>3, <1>6, <1>9 DEF Walks

\* Each step of the walk passes a business day.
LEMMA AdvancedIs ==
  ASSUME NEW day \in Int, NEW n \in Nat
  PROVE  /\ Advanced(day, n) \in Int /\ Advanced(day, n) >= day
         /\ Cardinality(Business(day, Advanced(day, n))) >= n
<1>1. PICK f \in [0 .. n -> Int] : Walks(f, day, n)
  BY AdvancedWalks
<1> DEFINE count(k) == Cardinality(Business(day, f[k]))
           kept == {k \in 0 .. n : f[k] \in Int /\ f[k] >= day /\ count(k) \in Nat /\ count(k) >= k}
<1>2. 0 \in kept
  <2>1. f[0] = day
    BY <1>1 DEF Walks
  <2>2. count(0) \in Nat
    BY <2>1, BusinessGrows
  <2> QED
    BY <2>1, <2>2
<1>3. ASSUME NEW k \in 0 .. n - 1, k \in kept PROVE k + 1 \in kept
  <2>1. k + 1 \in 0 .. n /\ k + 1 \in 1 .. n /\ (k + 1) - 1 = k
    OBVIOUS
  <2>2. f[k + 1] = Weekday(f[k] + 1) /\ f[k] \in Int /\ f[k] >= day
    BY <1>1, <1>3, <2>1 DEF Walks
  <2>3. f[k + 1] \in Int /\ f[k + 1] >= f[k] + 1 /\ ~Weekend(f[k + 1])
    BY <2>2, WeekdayIs
  <2>4. count(k + 1) \in Nat /\ count(k) \in Nat /\ count(k + 1) >= count(k) + 1
    <3> DEFINE a == f[k]   b == f[k + 1]
    <3>1. a \in Int /\ b \in Int /\ day <= a /\ a < b /\ a <= b /\ ~Weekend(b)
      BY <2>2, <2>3
    <3> HIDE DEF a, b
    <3>2. /\ Cardinality(Business(day, a)) \in Nat /\ Cardinality(Business(day, b)) \in Nat
          /\ Cardinality(Business(day, b)) >= Cardinality(Business(day, a)) + 1
      BY <3>1, BusinessGrows
    <3> QED
      BY <3>2 DEF a, b
  <2> HIDE DEF count
  <2>5. count(k) >= k
    BY <1>3
  <2> QED
    BY <2>1, <2>2, <2>3, <2>4, <2>5
<1>4. n \in kept
  <2> HIDE DEF kept
  <2>1. n \in Int /\ 0 \in Int /\ \A k \in 0 .. n - 1 : k \in kept => k + 1 \in kept
    BY <1>3
  <2>2. 0 .. n \subseteq kept
    BY <1>2, <2>1, ReachedBySteps
  <2> QED
    BY <2>2
<1> QED
  BY <1>1, <1>4 DEF Walks

\* Two walks of one length stay in order.
LEMMA AdvancedOrder ==
  ASSUME NEW day \in Int, NEW later \in Int, day <= later, NEW n \in Nat
  PROVE  Advanced(day, n) <= Advanced(later, n)
<1>1. PICK f \in [0 .. n -> Int] : Walks(f, day, n)
  BY AdvancedWalks
<1>2. PICK g \in [0 .. n -> Int] : Walks(g, later, n)
  BY AdvancedWalks
<1> DEFINE behind == {k \in 0 .. n : f[k] <= g[k]}
<1>3. 0 \in behind
  BY <1>1, <1>2 DEF Walks
<1>4. ASSUME NEW k \in 0 .. n - 1, k \in behind PROVE k + 1 \in behind
  <2>1. k + 1 \in 0 .. n /\ k + 1 \in 1 .. n /\ (k + 1) - 1 = k
    OBVIOUS
  <2>2. f[k + 1] = Weekday(f[k] + 1) /\ g[k + 1] = Weekday(g[k] + 1)
    BY <1>1, <1>2, <2>1 DEF Walks
  <2>3. f[k] + 1 \in Int /\ g[k] + 1 \in Int /\ f[k] + 1 <= g[k] + 1
    BY <1>4
  <2> QED
    BY <2>1, <2>2, <2>3, WeekdayOrder
<1>5. n \in behind
  <2> HIDE DEF behind
  <2>1. n \in Int /\ 0 \in Int /\ \A k \in 0 .. n - 1 : k \in behind => k + 1 \in behind
    BY <1>4
  <2>2. 0 .. n \subseteq behind
    BY <1>3, <2>1, ReachedBySteps
  <2> QED
    BY <2>2
<1> QED
  BY <1>1, <1>2, <1>5 DEF Walks

\* The hour a slot is set to, and the day it is on: both of its branches.
SlotHour(delay_hours) == IF start_hour + delay_hours >= end_hour THEN start_hour
                         ELSE start_hour + delay_hours
SlotDay(day, delay_hours) == IF start_hour + delay_hours >= end_hour THEN Weekday(day + 1) ELSE day

\* Both branches of the slot are a clock time within business hours on a weekday.
LEMMA SlotIs ==
  ASSUME NEW d \in Int, ~Weekend(d), NEW h \in Nat, NEW m \in 0 .. 59
  PROVE  /\ SlotHour(h) \in start_hour .. end_hour - 1 /\ SlotHour(h) \in 0 .. 23
         /\ SlotDay(d, h) \in Int /\ SlotDay(d, h) >= d /\ ~Weekend(SlotDay(d, h))
         /\ Slot(d, h, m) = Clock(SlotDay(d, h), SlotHour(h), m)
<1>1. SlotHour(h) \in start_hour .. end_hour - 1 /\ SlotHour(h) \in 0 .. 23
  BY HoursAssumption DEF SlotHour
<1>2. Weekday(d + 1) \in Int /\ Weekday(d + 1) >= d + 1 /\ ~Weekend(Weekday(d + 1))
  BY WeekdayIs
<1> QED
  BY <1>1, <1>2 DEF SlotDay, SlotHour, Slot

\* What calculate_next_send_time does with a slot that has passed.
\* A slot that has passed moves to the next opening, which has not.
LEMMA NotPastIs ==
  ASSUME NEW e \in Int, ~Weekend(e), NEW h \in start_hour .. end_hour - 1, NEW m \in 0 .. 59,
         NEW now \in Int, e >= Day(now)
  PROVE  LET slot == NotPast(Clock(e, h, m), now, m)
         IN /\ slot \in Int /\ slot > now /\ ~Weekend(Day(slot)) /\ Day(slot) >= e
            /\ Hour(slot) \in start_hour .. end_hour - 1
<1> DEFINE slot == Clock(e, h, m)   next == Weekday(e + 1)
<1>1. h \in 0 .. 23 /\ start_hour \in 0 .. 23 /\ start_hour \in start_hour .. end_hour - 1
  BY HoursAssumption
<1>2. slot \in Int /\ Day(slot) = e /\ Hour(slot) = h
  BY <1>1, ClockIs
<1>3. next \in Int /\ next > e /\ ~Weekend(next)
  BY WeekdayIs
<1>4. /\ Clock(next, start_hour, m) \in Int /\ Day(Clock(next, start_hour, m)) = next
      /\ Hour(Clock(next, start_hour, m)) = start_hour
  BY <1>1, <1>3, ClockIs
<1>5. Day(now) \in Int /\ (next > Day(now) => Clock(next, start_hour, m) > now)
  BY <1>1, <1>3, ClockOrder
<1> HIDE DEF slot, next
<1>6. NotPast(slot, now, m) = IF slot <= now THEN Clock(next, start_hour, m) ELSE slot
  BY <1>2 DEF NotPast, next
<1>7. CASE slot <= now
  <2>1. next > Day(now)
    BY <1>3, <1>5
  <2> QED
    BY <1>1, <1>3, <1>4, <1>5, <1>6, <1>7, <2>1 DEF slot
<1>8. CASE ~(slot <= now)
  BY <1>1, <1>2, <1>6, <1>8 DEF slot
<1> QED
  BY <1>7, <1>8

\* The day and the slot calculate_next_send_time starts from.
DueDay(now, days) == Weekday(Advanced(Day(now), days))

\* The day a step is due is a weekday at least its delay of business days on.
LEMMA DueDayIs ==
  ASSUME NEW now \in Int, NEW n \in Nat
  PROVE  /\ Day(now) \in Int /\ DueDay(now, n) \in Int /\ DueDay(now, n) >= Day(now)
         /\ ~Weekend(DueDay(now, n))
         /\ Cardinality(Business(Day(now), DueDay(now, n))) >= n
<1> DEFINE a == Advanced(Day(now), n)   d == DueDay(now, n)
<1>1. Day(now) \in Int
  BY DEF Day
<1>2. a \in Int /\ a >= Day(now) /\ Cardinality(Business(Day(now), a)) >= n
  BY <1>1, AdvancedIs
<1>3. d \in Int /\ d >= a /\ ~Weekend(d)
  BY <1>2, WeekdayIs DEF DueDay
<1> HIDE DEF a, d
<1>4. /\ Cardinality(Business(Day(now), a)) \in Nat /\ Cardinality(Business(Day(now), d)) \in Nat
      /\ Cardinality(Business(Day(now), a)) <= Cardinality(Business(Day(now), d))
  BY <1>1, <1>2, <1>3, BusinessGrows
<1> QED
  BY <1>1, <1>2, <1>3, <1>4 DEF d

\* calculate_next_send_time, for any moment, delays and jitter.
LEMMA SendTimeIs ==
  ASSUME NEW now \in Int, NEW n \in Nat, NEW h \in Nat, NEW m \in 0 .. 59
  PROVE  LET slot == calculate_next_send_time(now, n, h, m)
         IN /\ slot \in Int /\ slot > now /\ ~Weekend(Day(slot))
            /\ Hour(slot) \in start_hour .. end_hour - 1
            /\ Cardinality(Business(Day(now), Day(slot))) >= n
<1> DEFINE d == DueDay(now, n)   e == SlotDay(d, h)   k == SlotHour(h)
           slot == calculate_next_send_time(now, n, h, m)
<1>1. /\ Day(now) \in Int /\ d \in Int /\ d >= Day(now) /\ ~Weekend(d)
      /\ Cardinality(Business(Day(now), d)) >= n
  BY DueDayIs
<1>2. slot = NotPast(Slot(d, h, m), now, m)
  BY DEF calculate_next_send_time, DueDay
<1> HIDE DEF slot, d
<1>3. /\ k \in start_hour .. end_hour - 1 /\ e \in Int /\ e >= d /\ ~Weekend(e)
      /\ Slot(d, h, m) = Clock(e, k, m)
  BY <1>1, SlotIs
<1> HIDE DEF e, k
<1>4. /\ slot \in Int /\ slot > now /\ ~Weekend(Day(slot)) /\ Day(slot) >= e
      /\ Hour(slot) \in start_hour .. end_hour - 1
  <2>1. e >= Day(now)
    BY <1>1, <1>3
  <2> QED
    BY <1>2, <1>3, <2>1, NotPastIs
<1>5. Day(slot) \in Int /\ d <= Day(slot)
  BY <1>1, <1>3, <1>4 DEF Day
<1>6. /\ Cardinality(Business(Day(now), d)) \in Nat /\ Cardinality(Business(Day(now), Day(slot))) \in Nat
      /\ Cardinality(Business(Day(now), d)) <= Cardinality(Business(Day(now), Day(slot)))
  BY <1>1, <1>5, BusinessGrows
<1>7. Cardinality(Business(Day(now), Day(slot))) >= n
  BY <1>1, <1>6
<1> QED
  BY <1>4, <1>7 DEF slot

\* And it is monotone up to the minutes drawn: a passed slot moves on to no later hour than where a
\* later moment's slot lies, unless the two draws fall on both sides of the moments.
LEMMA SendTimeOrder ==
  ASSUME NEW now \in Int, NEW later \in Int, now < later,
         NEW n \in Nat, NEW h \in Nat, NEW m1 \in 0 .. 59, NEW m2 \in 0 .. 59
  PROVE  LET s1 == calculate_next_send_time(now, n, h, m1)
             s2 == calculate_next_send_time(later, n, h, m2)
         IN s1 - m1 <= s2 - m2 \/ s2 - m2 + m1 <= now
<1> DEFINE k == SlotHour(h)
           d1 == DueDay(now, n)     e1 == SlotDay(d1, h)   t1 == Clock(e1, k, m1)
           d2 == DueDay(later, n)   e2 == SlotDay(d2, h)   t2 == Clock(e2, k, m2)
<1>1. /\ d1 \in Int /\ ~Weekend(d1) /\ d2 \in Int /\ ~Weekend(d2)
  BY DueDayIs
<1>2. d1 <= d2
  <2>1. Day(now) \in Int /\ Day(later) \in Int /\ Day(now) <= Day(later)
    BY DEF Day
  <2>2. Advanced(Day(now), n) <= Advanced(Day(later), n)
    BY <2>1, AdvancedOrder
  <2>3. Advanced(Day(now), n) \in Int /\ Advanced(Day(later), n) \in Int
    BY <2>1, AdvancedIs
  <2> QED
    BY <2>2, <2>3, WeekdayOrder DEF DueDay
<1>3. /\ calculate_next_send_time(now, n, h, m1) = NotPast(Slot(d1, h, m1), now, m1)
      /\ calculate_next_send_time(later, n, h, m2) = NotPast(Slot(d2, h, m2), later, m2)
  BY DEF calculate_next_send_time, DueDay
<1> HIDE DEF d1, d2
<1>4. /\ k \in start_hour .. end_hour - 1 /\ k \in 0 .. 23
      /\ e1 \in Int /\ ~Weekend(e1) /\ e2 \in Int /\ ~Weekend(e2)
      /\ Slot(d1, h, m1) = t1 /\ Slot(d2, h, m2) = t2
  BY <1>1, SlotIs
<1>5. e1 <= e2
  <2>1. d1 + 1 \in Int /\ d2 + 1 \in Int /\ d1 + 1 <= d2 + 1
    BY <1>1, <1>2
  <2>2. Weekday(d1 + 1) <= Weekday(d2 + 1)
    BY <2>1, WeekdayOrder
  <2> QED
    BY <1>2, <2>2 DEF SlotDay
<1> HIDE DEF e1, e2, k
<1> DEFINE next1 == Weekday(e1 + 1)   next2 == Weekday(e2 + 1)
<1>6. /\ t1 \in Int /\ t2 \in Int /\ Day(t1) = e1 /\ Day(t2) = e2
  BY <1>4, ClockIs
<1>7. /\ next1 \in Int /\ next2 \in Int /\ next1 <= next2 /\ next2 > e2
      /\ \A e \in Int : e >= e1 + 1 /\ ~Weekend(e) => e >= next1
  BY <1>4, <1>5, WeekdayIs, WeekdayOrder
<1> DEFINE s1 == Clock(next1, start_hour, m1)   s2 == Clock(next2, start_hour, m2)
<1>8. /\ NotPast(t1, now, m1) = IF t1 <= now THEN s1 ELSE t1
      /\ NotPast(t2, later, m2) = IF t2 <= later THEN s2 ELSE t2
  BY <1>6 DEF NotPast
<1> HIDE DEF next1, next2
<1>9. t1 - m1 <= t2 - m2 /\ s1 - m1 <= s2 - m2 /\ s1 \in Int /\ s2 \in Int
  BY <1>4, <1>5, <1>7, HoursAssumption DEF Clock
<1>10. t2 <= s2
  BY <1>4, <1>7, HoursAssumption DEF Clock
<1>11. e1 # e2 => s1 - m1 <= t2 - m2
  <2>1. e1 # e2 => e2 >= next1
    BY <1>4, <1>5, <1>7
  <2> QED
    BY <1>4, <1>7, <2>1, HoursAssumption DEF Clock
<1>12. e1 = e2 => t1 - m1 = t2 - m2
  BY <1>4 DEF Clock
<1> HIDE DEF t1, t2, s1, s2
<1> DEFINE r1 == NotPast(t1, now, m1)   r2 == NotPast(t2, later, m2)
<1>13. r1 - m1 <= r2 - m2 \/ r2 - m2 + m1 <= now
  <2>1. CASE t1 <= now
    <3>1. CASE t2 <= later
      BY <1>8, <1>9, <2>1, <3>1
    <3>2. CASE ~(t2 <= later)
      <4>1. CASE e1 = e2
        <5>1. r2 - m2 + m1 = t1
          BY <1>6, <1>8, <1>12, <3>2, <4>1
        <5> QED
          BY <2>1, <5>1
      <4>2. CASE e1 # e2
        BY <1>8, <1>11, <2>1, <3>2, <4>2
      <4> QED
        BY <4>1, <4>2
    <3> QED
      BY <3>1, <3>2
  <2>2. CASE ~(t1 <= now)
    BY <1>6, <1>8, <1>9, <1>10, <2>2
  <2> QED
    BY <2>1, <2>2
<1> QED
  BY <1>3, <1>4, <1>13

-----------------------------------------------------------------------------
(* Lead scores and drafts *)

\* The ranges of employee counts leave no gap.
LEMMA SizeRanges ==
  ASSUME NEW n \in Nat
  PROVE  n \in 50 .. 2500 \/ n \in 2501 .. 10000 \/ n \in 10 .. 49 \/ n > 10000 \/ n < 10
OBVIOUS

\* Each part of the score stays within its range, so the caps of icp and intent never bite.
LEMMA Points ==
  ASSUME NEW l \in Leads
  PROVE  /\ IndustryPoints(l) \in 0 .. 15 /\ SizePoints(l) \in 0 .. 15 /\ TitlePoints(l) \in 0 .. 10
         /\ relevance_score(l) \in 0 .. 25
         /\ StagePoints(l) \in 5 .. 20 /\ NotesPoints(l) \in 0 .. 5
         /\ intent_score(l) = StagePoints(l) + NotesPoints(l) /\ intent_score(l) \in 0 .. 20
         /\ quality_score(l) \in -10 .. 10
<1>0. /\ l.industry \in Industries /\ l.job_title \in JobTitles /\ l.stage \in Stages
      /\ l.counted \in BOOLEAN /\ l.employee_count \in Nat
  BY CountsAssumption DEF Leads
<1>1. IndustryPoints(l) \in 0 .. 15
  BY <1>0 DEF Industries, IndustryPoints
<1>2. SizePoints(l) \in 0 .. 15
  <2>1. CASE l.counted
    <3> DEFINE k == l.employee_count
    <3>2. k \in Nat
      BY <1>0
    <3>0. k = l.employee_count
      OBVIOUS
    <3> HIDE DEF k
    <3>3. k \in 50 .. 2500 \/ k \in 2501 .. 10000 \/ k \in 10 .. 49 \/ k > 10000 \/ k < 10
      BY <3>2, SizeRanges, SMT
    <3>4. CASE k \in 50 .. 2500
      BY <2>1, <3>0, <3>4 DEF SizePoints
    <3>5. CASE k \in 2501 .. 10000
      BY <2>1, <3>0, <3>2, <3>5 DEF SizePoints
    <3>6. CASE k \in 10 .. 49
      BY <2>1, <3>0, <3>2, <3>6 DEF SizePoints
    <3>7. CASE k > 10000
      BY <2>1, <3>0, <3>2, <3>7 DEF SizePoints
    <3>8. CASE k < 10
      BY <2>1, <3>0, <3>2, <3>8 DEF SizePoints
    <3> QED
      BY <3>3, <3>4, <3>5, <3>6, <3>7, <3>8
  <2>2. CASE ~l.counted
    BY <2>2 DEF SizePoints
  <2> QED
    BY <2>1, <2>2
<1>3. TitlePoints(l) \in 0 .. 10
  BY <1>0 DEF JobTitles, TitlePoints
<1>4. StagePoints(l) \in 5 .. 20
  BY <1>0 DEF Stages, StagePoints
<1>5. relevance_score(l) \in 0 .. 25
  BY DEF relevance_score, AtMost
<1>6. NotesPoints(l) \in 0 .. 5 /\ StagePoints(l) + NotesPoints(l) \in 0 .. 20
  BY <1>4 DEF NotesPoints, AtMost
<1>7. intent_score(l) = StagePoints(l) + NotesPoints(l)
  BY <1>6 DEF intent_score, AtMost
<1>8. quality_score(l) \in -10 .. 10
  BY DEF quality_score
<1> QED
  BY <1>1, <1>2, <1>3, <1>4, <1>5, <1>6, <1>7, <1>8

\* A disqualifying flag or title is at least one deduction.
LEMMA DeductionsAre ==
  ASSUME NEW l \in Leads
  PROVE  /\ Deductions(l) \in Nat
         /\ l.flags # {} \/ l.job_title = "out_of_scope" => Deductions(l) >= 1
<1>1. l.flags \in SUBSET Flags
  BY DEF Leads
<1>2. IsFiniteSet(Flags)
  <2>1. IsFiniteSet({"competitor"}) /\ IsFiniteSet({"blocked"})
    BY FS_Singleton
  <2>2. IsFiniteSet({"competitor"} \cup {"blocked"}) /\ Flags = {"competitor"} \cup {"blocked"}
    BY <2>1, FS_Union DEF Flags
  <2> QED
    BY <2>2
<1>3. IsFiniteSet(l.flags)
  BY <1>1, <1>2, FS_Subset
<1>4. Cardinality(l.flags) \in Nat /\ (l.flags # {} => Cardinality(l.flags) # 0)
  BY <1>3, FS_CardinalityType, FS_EmptySet
<1> QED
  BY <1>4 DEF Deductions

\* What a ruled-out lead loses cannot be made up: 40 + 25 + 20 - 10 is below 80.
LEMMA ExcludedIsNotHot ==
  ASSUME NEW l \in Leads, l.flags # {} \/ l.job_title = "out_of_scope" \/ l.free_mail
  PROVE  evaluate_lead_score(l).band # "HOT"
<1>1. icp_score(l) <= 40 /\ icp_score(l) \in Int
  BY Points DEF icp_score, AtMost
<1>2. relevance_score(l) <= 25 /\ intent_score(l) <= 20 /\ relevance_score(l) \in Int /\ intent_score(l) \in Int
  BY Points
<1>3. /\ quality_score(l) \in Int /\ negative_score(l) \in Int
      /\ quality_score(l) + negative_score(l) <= -10
  <2>1. /\ Deductions(l) \in Nat
        /\ l.flags # {} \/ l.job_title = "out_of_scope" => Deductions(l) >= 1
    BY DeductionsAre
  <2>2. quality_score(l) \in -10 .. 10
    BY Points
  <2>3. negative_score(l) \in -20 .. 0 /\ (Deductions(l) >= 1 => negative_score(l) = -20)
    BY <2>1 DEF negative_score, AtLeast
  <2>4. CASE l.free_mail
    <3>1. quality_score(l) = -10
      BY <2>4 DEF quality_score
    <3> QED
      BY <2>3, <3>1
  <2>5. CASE ~l.free_mail
    BY <2>1, <2>2, <2>3, <2>5
  <2> QED
    BY <2>4, <2>5
<1>4. total_score(l) < 80 /\ total_score(l) \in Int
  <2> DEFINE a == icp_score(l)  b == relevance_score(l)  c == intent_score(l)
             q == quality_score(l)  n == negative_score(l)
  <2>1. a + b + c + q + n <= 75 /\ a + b + c + q + n \in Int
    <3> HIDE DEF a, b, c, q, n
    <3> QED
      BY <1>1, <1>2, <1>3 DEF a, b, c, q, n
  <2> HIDE DEF a, b, c, q, n
  <2> DEFINE s == a + b + c + q + n
  <2>2. total_score(l) = AtLeast(0, AtMost(100, s))
    BY DEF total_score, a, b, c, q, n
  <2> HIDE DEF s
  <2>3. s <= 75 /\ s \in Int
    BY <2>1 DEF s
  <2> QED
    BY <2>2, <2>3 DEF AtLeast, AtMost
<1> QED
  BY <1>4 DEF evaluate_lead_score, score_band

\* With one deduction at most the floor of the deductions does not bite either.
LEMMA ReasonsAre ==
  ASSUME NEW l \in Leads, Deductions(l) <= 1
  PROVE  evaluate_lead_score(l).total = AtLeast(0, AtMost(100, evaluate_lead_score(l).listed))
<1> DEFINE i == IndustryPoints(l)  z == SizePoints(l)  t == TitlePoints(l)  b == relevance_score(l)
           g == StagePoints(l)  e == NotesPoints(l)  q == quality_score(l)  d == Deductions(l)
<1>1. /\ i \in 0 .. 15 /\ z \in 0 .. 15 /\ t \in 0 .. 10 /\ b \in 0 .. 25 /\ g \in 5 .. 20
      /\ e \in 0 .. 5 /\ q \in -10 .. 10 /\ d \in Nat /\ d <= 1
  BY Points, DeductionsAre
<1>2. icp_score(l) = i + z + t
  <2>1. i + z + t <= 40
    BY <1>1
  <2> QED
    BY <1>1, <2>1 DEF icp_score, AtMost
<1>3. intent_score(l) = g + e
  BY Points
<1>4. negative_score(l) = 0 - 20 * d
  BY <1>1 DEF negative_score, AtLeast
<1> HIDE DEF i, z, t, b, g, e, q, d
<1>5. reasons(l) = i + z + t + b + g + e + q - 20 * d
  BY DEF reasons, i, z, t, b, g, e, q, d
<1>6. icp_score(l) + relevance_score(l) + intent_score(l) + quality_score(l) + negative_score(l) = reasons(l)
  <2>1. relevance_score(l) = b /\ quality_score(l) = q
    BY DEF b, q
  <2> QED
    BY <1>1, <1>2, <1>3, <1>4, <1>5, <2>1
<1> QED
  BY <1>6 DEF evaluate_lead_score, total_score

\* A released verdict was grounded, unflagged, meant to be sent and confident.
LEMMA ReleasedIsSafe ==
  ASSUME NEW d \in Drafts, NEW before \in Policies, NEW after \in Policies, NEW proven \in BOOLEAN,
         NEW v \in verify_draft(d, before, after, proven), Released(v)
  PROVE  /\ is_grounded(d, before, after, proven)
         /\ ~d.flagged /\ d.send /\ d.confidence >= 850
<1> DEFINE grounded == is_grounded(d, before, after, proven)
           confidence == Penalised(d, grounded)
           sends == d.send /\ grounded /\ ~d.flagged /\ confidence >= 850
<1>1. v \in [confidence : Rounded(confidence), send : {sends}]
  BY DEF verify_draft
<1>2. v.send = sends
  <2> HIDE DEF sends
  <2> QED
    BY <1>1
<1>3. sends
  BY <1>2 DEF Released
<1>4. confidence = d.confidence
  <2> HIDE DEF grounded
  <2> QED
    BY <1>3 DEF Penalised
<1> QED
  BY <1>3, <1>4

-----------------------------------------------------------------------------
(* Chunks *)

\* The words of a text add up paragraph by paragraph.
Sums(words, text) ==
  /\ words \in [0 .. Len(text) -> Nat] /\ words[0] = 0
  /\ \A p \in 1 .. Len(text) : words[p] = words[p - 1] + text[p]

\* WordsOf counts the words paragraph by paragraph.
LEMMA WordsAre ==
  ASSUME NEW text \in Seq(Nat \ {0})
  PROVE  Sums(WordsOf(text), text)
<1> DEFINE S == Nat   N == Len(text)   none == 0
           step == [p \in 1 .. N |-> [m \in S |-> m + text[p]]]
           words == CHOOSE g : g = [p \in 0 .. Len(text) |->
                                      IF p = 0 THEN 0 ELSE g[p - 1] + text[p]]
<1>1. N \in Nat /\ \A p \in 1 .. N : text[p] \in Nat \ {0}
  BY LenProperties, ElementOfSeq
<1>2. step \in [1 .. N -> [S -> S]] /\ none \in S
  BY <1>1
<1>3. PICK f \in [0 .. N -> S] : Iterates(f, N, none, step)
  <2> HIDE DEF S, N, none, step
  <2> QED
    BY <1>1, <1>2, IterationExists
<1>4. f[0] = 0 /\ \A p \in 1 .. N : f[p] = f[p - 1] + text[p]
  <2>1. f[0] = 0 /\ \A p \in 1 .. N : f[p] = step[p][f[p - 1]]
    BY <1>3 DEF Iterates
  <2>2. \A p \in 1 .. N : p - 1 \in 0 .. N
    BY <1>1
  <2> QED
    BY <2>1, <2>2
<1>5. f = [p \in 0 .. Len(text) |-> IF p = 0 THEN 0 ELSE f[p - 1] + text[p]]
  <2> DEFINE h == [p \in 0 .. N |-> IF p = 0 THEN 0 ELSE f[p - 1] + text[p]]
  <2>1. ASSUME NEW p \in 0 .. N PROVE f[p] = h[p]
    BY <1>1, <1>4
  <2>2. h = [p \in 0 .. N |-> h[p]] /\ f = [p \in 0 .. N |-> f[p]]
    OBVIOUS
  <2> HIDE DEF h, N
  <2>3. f = h
    BY <2>1, <2>2
  <2> QED
    BY <2>3 DEF h, N
<1>6. words = [p \in 0 .. Len(text) |-> IF p = 0 THEN 0 ELSE words[p - 1] + text[p]]
  BY <1>5
<1>7. WordsOf(text) = words
  BY DEF WordsOf
<1> HIDE DEF words
<1> DEFINE natural == {p \in 0 .. N : words[p] \in Nat}
<1>8. 0 \in natural
  BY <1>1, <1>6
<1>9. ASSUME NEW p \in 0 .. N - 1, p \in natural PROVE p + 1 \in natural
  <2>1. p + 1 \in 0 .. N /\ p + 1 \in 1 .. N /\ p + 1 # 0 /\ (p + 1) - 1 = p
    BY <1>1
  <2>2. words[p + 1] = words[p] + text[p + 1] /\ text[p + 1] \in Nat /\ words[p] \in Nat
    BY <1>1, <1>6, <1>9, <2>1
  <2> QED
    BY <2>1, <2>2
<1>10. \A p \in 0 .. N : words[p] \in Nat
  <2> HIDE DEF natural, N
  <2>1. N \in Int /\ 0 \in Int /\ \A p \in 0 .. N - 1 : p \in natural => p + 1 \in natural
    BY <1>1, <1>9
  <2>2. 0 .. N \subseteq natural
    BY <1>8, <2>1, ReachedBySteps
  <2> QED
    BY <2>2 DEF natural
<1>11. words \in [0 .. N -> Nat]
  BY <1>6, <1>10
<1>12. words[0] = 0 /\ \A p \in 1 .. N : words[p] = words[p - 1] + text[p]
  BY <1>1, <1>6
<1> QED
  BY <1>7, <1>11, <1>12 DEF Sums

\* Every paragraph has words.
LEMMA WordsGrow ==
  ASSUME NEW text \in Seq(Nat \ {0}), NEW words, Sums(words, text), NEW p \in 0 .. Len(text) - 1
  PROVE  /\ words[p] \in Nat /\ words[p + 1] \in Nat /\ words[p + 1] > words[p]
         /\ words[p + 1] = words[p] + text[p + 1] /\ text[p + 1] \in Nat \ {0}
         /\ p + 1 \in DOMAIN text /\ \A q \in 1 .. p : words[q] \in Nat
<1> DEFINE n == p + 1
<1>1. n \in 1 .. Len(text) /\ n \in 0 .. Len(text) /\ n - 1 = p /\ p \in 0 .. Len(text)
  BY LenProperties
<1>2. text[n] \in Nat \ {0} /\ n \in DOMAIN text
  BY <1>1, ElementOfSeq, LenProperties
<1> HIDE DEF n
<1>3. words[n] = words[n - 1] + text[n] /\ words[n] \in Nat /\ words[p] \in Nat
  BY <1>1 DEF Sums
<1>4. \A q \in 1 .. p : q \in 0 .. Len(text)
  BY LenProperties
<1>5. \A q \in 1 .. p : words[q] \in Nat
  BY <1>4 DEF Sums
<1> QED
  BY <1>1, <1>2, <1>3, <1>5 DEF n

\* A chunk as its first and last word.
Piece == [first : Int, last : Int]

\* A chunk larger than the limit is no more than the overlap and the paragraph it ends with.
Small(text, words, x) ==
  \/ x.last - x.first < PER_CHUNK
  \/ \E p \in DOMAIN text : x.last = words[p] /\ x.last - x.first < OVERLAP + text[p]

\* The words two chunks share: the overlap, or all of the first when it has fewer.
Shares(x, y) == x.last - y.first + 1 = AtMost(OVERLAP, x.last - x.first + 1)

\* Chunks that cover the first p paragraphs of a text, from the first word to the last.
Covers(text, words, p, s) ==
  /\ s \in Seq(Piece) /\ s # <<>>
  /\ s[1].first = 1 /\ s[Len(s)].last = words[p]
  /\ \A i \in 1 .. Len(s) - 1 : Shares(s[i], s[i + 1]) /\ s[i + 1].last > s[i].last
  /\ \A i \in 1 .. Len(s) : Small(text, words, s[i])
  /\ \A q \in 1 .. p : \E i \in 1 .. Len(s) : s[i].first <= words[q - 1] + 1 /\ s[i].last >= words[q]

\* A chunk more, which holds the next paragraph.
LEMMA CoverGrows ==
  ASSUME NEW text \in Seq(Nat \ {0}), NEW words, Sums(words, text),
         NEW p \in 0 .. Len(text) - 1, NEW s, Covers(text, words, p, s),
         NEW x \in Piece, x.last = words[p + 1], Small(text, words, x),
         x.first <= words[p] + 1, Shares(s[Len(s)], x)
  PROVE  Covers(text, words, p + 1, Append(s, x))
<1> DEFINE a == Append(s, x)   n == Len(s)
<1>1. s \in Seq(Piece) /\ s # <<>> /\ Len(s) \in Nat \ {0}
  BY LenProperties, EmptySeq DEF Covers
<1>2. /\ a \in Seq(Piece) /\ Len(a) = n + 1 /\ a[n + 1] = x /\ a # <<>>
      /\ \A i \in 1 .. n : a[i] = s[i]
  BY <1>1, AppendProperties, EmptySeq
<1>3. words[p] \in Nat /\ words[p + 1] \in Nat /\ words[p + 1] > words[p]
  BY WordsGrow
<1> HIDE DEF a, n
<1>4. n \in Nat \ {0} /\ n = Len(s)
  BY <1>1 DEF n
<1>5. a[1].first = 1 /\ a[Len(a)].last = words[p + 1]
  BY <1>2, <1>4 DEF Covers
<1>6. ASSUME NEW i \in 1 .. Len(a) - 1
      PROVE  Shares(a[i], a[i + 1]) /\ a[i + 1].last > a[i].last
  <2>1. CASE i = n
    <3>1. a[i] = s[n] /\ a[i + 1] = x /\ s[n].last = words[p]
      BY <1>2, <1>4, <2>1 DEF Covers
    <3> QED
      BY <1>3, <1>4, <3>1
  <2>2. CASE i # n
    <3>1. i \in 1 .. n - 1 /\ i \in 1 .. n /\ i + 1 \in 1 .. n
      BY <1>2, <1>4, <2>2
    <3>2. a[i] = s[i] /\ a[i + 1] = s[i + 1]
      BY <1>2, <3>1
    <3> QED
      BY <1>4, <3>1, <3>2 DEF Covers
  <2> QED
    BY <2>1, <2>2
<1>7. ASSUME NEW i \in 1 .. Len(a) PROVE Small(text, words, a[i])
  <2>1. i = n + 1 \/ i \in 1 .. n
    BY <1>2, <1>4
  <2> QED
    BY <1>2, <1>4, <2>1 DEF Covers
<1>8. ASSUME NEW q \in 1 .. p + 1
      PROVE  \E i \in 1 .. Len(a) : a[i].first <= words[q - 1] + 1 /\ a[i].last >= words[q]
  <2>1. CASE q = p + 1
    <3>1. n + 1 \in 1 .. Len(a) /\ q - 1 = p
      BY <1>2, <1>4, <2>1
    <3>2. x.first <= words[q - 1] + 1 /\ x.last >= words[q]
      BY <1>3, <2>1, <3>1
    <3> QED
      BY <1>2, <3>1, <3>2
  <2>2. CASE q # p + 1
    <3>1. q \in 1 .. p
      BY <2>2
    <3>2. PICK i \in 1 .. n : s[i].first <= words[q - 1] + 1 /\ s[i].last >= words[q]
      BY <1>4, <3>1 DEF Covers
    <3>3. i \in 1 .. Len(a) /\ a[i] = s[i]
      BY <1>2, <1>4
    <3> QED
      BY <3>2, <3>3
  <2> QED
    BY <2>1, <2>2
<1> QED
  BY <1>2, <1>5, <1>6, <1>7, <1>8 DEF Covers, a

\* The last chunk takes the next paragraph in.
LEMMA CoverWidens ==
  ASSUME NEW text \in Seq(Nat \ {0}), NEW words, Sums(words, text),
         NEW p \in 0 .. Len(text) - 1, NEW s \in Seq(Piece), NEW x \in Piece, NEW y \in Piece,
         Covers(text, words, p, Append(s, x)), x.first <= x.last,
         y.first = x.first, y.last = words[p + 1], Small(text, words, y)
  PROVE  Covers(text, words, p + 1, Append(s, y))
<1> DEFINE a == Append(s, x)   b == Append(s, y)   n == Len(s)
<1>1. /\ n \in Nat /\ Len(a) = n + 1 /\ a[n + 1] = x /\ \A i \in 1 .. n : a[i] = s[i]
      /\ b \in Seq(Piece) /\ Len(b) = n + 1 /\ b[n + 1] = y /\ b # <<>> /\ \A i \in 1 .. n : b[i] = s[i]
  BY LenProperties, AppendProperties, EmptySeq
<1> HIDE DEF a, b, n
<1>2. Covers(text, words, p, a)
  BY DEF a
<1>3. /\ words[p] \in Nat /\ words[p + 1] \in Nat /\ words[p + 1] > words[p]
  BY WordsGrow
<1>4. x.last = words[p] /\ y.last > x.last /\ x.first \in Int
  BY <1>1, <1>2, <1>3 DEF Covers, Piece
<1>5. \A i \in 1 .. n + 1 : b[i].first = a[i].first
  <2>1. ASSUME NEW i \in 1 .. n + 1 PROVE b[i].first = a[i].first
    <3>1. i = n + 1 \/ i \in 1 .. n
      BY <1>1
    <3> QED
      BY <1>1, <3>1
  <2> QED
    BY <2>1
<1>6. b[1].first = 1 /\ b[Len(b)].last = words[p + 1]
  BY <1>1, <1>2, <1>5 DEF Covers
<1>7. ASSUME NEW i \in 1 .. Len(b) - 1
      PROVE  Shares(b[i], b[i + 1]) /\ b[i + 1].last > b[i].last
  <2>1. i \in 1 .. n /\ i \in 1 .. Len(a) - 1 /\ b[i] = a[i] /\ i + 1 \in 1 .. n + 1
    BY <1>1
  <2>2. Shares(a[i], a[i + 1]) /\ a[i + 1].last > a[i].last
    BY <1>2, <2>1 DEF Covers
  <2>3. CASE i = n
    <3>1. a[i + 1] = x /\ b[i + 1] = y
      BY <1>1, <2>3
    <3>2. a[i].last \in Int
      <4>1. a[i] = s[i] /\ s[i] \in Piece
        BY <1>1, <2>1, ElementOfSeq DEF n
      <4> QED
        BY <4>1 DEF Piece
    <3>3. y.last > a[i].last /\ Shares(a[i], y)
      BY <1>3, <1>4, <2>2, <3>1, <3>2 DEF Shares
    <3> QED
      BY <2>1, <3>1, <3>3
  <2>4. CASE i # n
    <3>1. i + 1 \in 1 .. n
      BY <1>1, <2>1, <2>4
    <3>2. b[i + 1] = a[i + 1]
      BY <1>1, <3>1
    <3> QED
      BY <2>1, <2>2, <3>2
  <2> QED
    BY <2>3, <2>4
<1>8. ASSUME NEW i \in 1 .. Len(b) PROVE Small(text, words, b[i])
  <2>1. CASE i = n + 1
    BY <1>1, <2>1
  <2>2. CASE i # n + 1
    <3>1. i \in 1 .. n /\ i \in 1 .. Len(a)
      BY <1>1, <2>2
    <3>2. b[i] = a[i]
      BY <1>1, <3>1
    <3> QED
      BY <1>2, <3>1, <3>2 DEF Covers
  <2> QED
    BY <2>1, <2>2
<1>9. ASSUME NEW q \in 1 .. p + 1
      PROVE  \E i \in 1 .. Len(b) : b[i].first <= words[q - 1] + 1 /\ b[i].last >= words[q]
  <2>1. CASE q = p + 1
    <3>1. n + 1 \in 1 .. Len(b) /\ q - 1 = p
      BY <1>1, <2>1
    <3>2. y.first <= words[p] + 1
      BY <1>3, <1>4
    <3> QED
      BY <1>1, <1>3, <2>1, <3>1, <3>2
  <2>2. CASE q # p + 1
    <3>1. q \in 1 .. p
      BY <2>2
    <3>2. PICK i \in 1 .. Len(a) : a[i].first <= words[q - 1] + 1 /\ a[i].last >= words[q]
      BY <1>2, <3>1 DEF Covers
    <3>3. i \in 1 .. Len(b) /\ b[i].first = a[i].first
      BY <1>1, <1>5
    <3>4. CASE i = n + 1
      <4>1. q \in 0 .. Len(text) /\ words[q] \in Nat
        BY <3>1, LenProperties, WordsGrow
      <4>2. a[i] = x /\ b[i] = y
        BY <1>1, <3>4
      <4>3. b[i].last >= words[q]
        BY <1>3, <1>4, <3>2, <4>1, <4>2
      <4> QED
        BY <3>2, <3>3, <4>3
    <3>5. CASE i # n + 1
      <4>1. i \in 1 .. n
        BY <1>1, <3>5
      <4>2. b[i] = a[i]
        BY <1>1, <4>1
      <4> QED
        BY <3>2, <3>3, <4>2
    <3> QED
      BY <3>4, <3>5
  <2> QED
    BY <2>1, <2>2
<1> QED
  BY <1>1, <1>6, <1>7, <1>8, <1>9 DEF Covers, b

\* What chunk_text has gathered and closed after p paragraphs: nothing, or chunks that cover them
\* when the words it holds are closed too.
Gathering == [first : Int, last : Int, chunks : Seq(Piece)]
Cut(text, words, p, c) ==
  /\ c \in Gathering /\ Small(text, words, c)
  /\ p = 0 => c = Empty
  /\ p > 0 => c.first <= c.last /\ c.last = words[p]
               /\ Covers(text, words, p, Append(c.chunks, Chunk(c)))

\* The first paragraph is gathered whole.
LEMMA FirstParagraph ==
  ASSUME NEW text \in Seq(Nat \ {0}), NEW words, Sums(words, text), 0 < Len(text)
  PROVE  Cut(text, words, 1, AddParagraph(Empty, text[1]))
<1> DEFINE c == AddParagraph(Empty, text[1])   k == text[1]   x == Chunk(c)
<1>1. /\ Len(text) \in Nat /\ 0 \in 0 .. Len(text) - 1 /\ 1 \in DOMAIN text
  BY LenProperties
<1>2. k \in Nat \ {0} /\ words[0] = 0 /\ words[1] = k /\ words[1] \in Nat
  <2>1. words[0 + 1] = words[0] + text[0 + 1] /\ text[0 + 1] \in Nat \ {0} /\ words[0] = 0
    BY <1>1, WordsGrow DEF Sums
  <2> QED
    BY <2>1
<1> HIDE DEF k
<1>3. c = [first |-> 1, last |-> k, chunks |-> <<>>]
  <2>1. Gathered(Empty) = 0
    BY DEF Gathered, Empty
  <2>2. c = [Empty EXCEPT !.last = Empty.last + k]
    BY <2>1 DEF AddParagraph, k
  <2> HIDE DEF c
  <2> QED
    BY <1>2, <2>2 DEF Empty
<1> HIDE DEF c
<1>4. x = [first |-> 1, last |-> k] /\ x \in Piece
  BY <1>2, <1>3 DEF Chunk, Piece
<1> HIDE DEF x
<1>5. c \in Gathering
  <2>1. <<>> \in Seq(Piece)
    BY EmptySeq
  <2> QED
    BY <1>2, <1>3, <2>1 DEF Gathering
<1>6. Small(text, words, c) /\ Small(text, words, x)
  BY <1>1, <1>2, <1>3, <1>4, ChunkAssumption DEF Small, k
<1> DEFINE s == Append(c.chunks, x)
<1>7. s \in Seq(Piece) /\ Len(s) = 1 /\ s[1] = x /\ s # <<>>
  <2>1. c.chunks \in Seq(Piece) /\ Len(c.chunks) = 0
    BY <1>3, EmptySeq
  <2>2. s \in Seq(Piece) /\ s # <<>> /\ Len(s) = 0 + 1 /\ s[0 + 1] = x
    BY <1>4, <2>1, AppendProperties
  <2> QED
    BY <2>2
<1> HIDE DEF s
<1>8. s[1].first = 1 /\ s[1].last = words[1]
  BY <1>2, <1>4, <1>7
<1>9. /\ \A i \in 1 .. Len(s) - 1 : Shares(s[i], s[i + 1]) /\ s[i + 1].last > s[i].last
      /\ \A i \in 1 .. Len(s) : Small(text, words, s[i])
  <2>1. 1 .. Len(s) - 1 = {} /\ 1 .. Len(s) = {1}
    BY <1>7
  <2> QED
    BY <1>6, <1>7, <2>1
<1>10. \A q \in 1 .. 1 : \E i \in 1 .. Len(s) : s[i].first <= words[q - 1] + 1 /\ s[i].last >= words[q]
  <2>1. 1 \in 1 .. Len(s) /\ s[1].first <= words[1 - 1] + 1 /\ s[1].last >= words[1]
    BY <1>2, <1>7, <1>8
  <2>2. 1 .. 1 = {1}
    OBVIOUS
  <2> QED
    BY <2>1, <2>2
<1>11. Covers(text, words, 1, s)
  BY <1>7, <1>8, <1>9, <1>10 DEF Covers
<1>12. c.first <= c.last /\ c.last = words[1]
  BY <1>2, <1>3
<1> QED
  BY <1>5, <1>6, <1>11, <1>12 DEF Cut, s, x, c, k

\* A paragraph joins what is gathered, or what is gathered is closed first and its end kept.
LEMMA NextParagraph ==
  ASSUME NEW text \in Seq(Nat \ {0}), NEW words, Sums(words, text),
         NEW p \in 1 .. Len(text) - 1, NEW c, Cut(text, words, p, c)
  PROVE  Cut(text, words, p + 1, AddParagraph(c, text[p + 1]))
<1> DEFINE k == text[p + 1]   e == AddParagraph(c, k)   x == Chunk(c)   y == Chunk(e)
<1>1. p \in 0 .. Len(text) - 1 /\ p > 0 /\ p + 1 > 0 /\ p + 1 # 0
  BY LenProperties
<1>2. /\ words[p] \in Nat /\ words[p + 1] = words[p] + k /\ k \in Nat \ {0} /\ p + 1 \in DOMAIN text
  BY <1>1, WordsGrow
<1> HIDE DEF k
<1>3. /\ c \in Gathering /\ Small(text, words, c) /\ c.first <= c.last /\ c.last = words[p]
      /\ Covers(text, words, p, Append(c.chunks, x))
  BY <1>1 DEF Cut
<1>4. c.first \in Int /\ c.last \in Int /\ c.chunks \in Seq(Piece) /\ Gathered(c) = c.last - c.first + 1
  BY <1>3 DEF Gathering, Gathered
<1>5. x = [first |-> c.first, last |-> c.last] /\ x \in Piece
  BY <1>4 DEF Chunk, Piece
<1> DEFINE closes == Gathered(c) + k > PER_CHUNK /\ Gathered(c) > 0
<1>6. e = [(IF closes THEN Close(c) ELSE c) EXCEPT !.last = @ + k]
  BY DEF AddParagraph
<1>7. CASE closes
  <2> DEFINE s == Append(c.chunks, x)   first == Kept(c)
  <2>1. s \in Seq(Piece)
    BY <1>4, <1>5, AppendProperties
  <2>2. Close(c) = [first |-> first, last |-> c.last, chunks |-> s]
    <3>1. Close(c) = [c EXCEPT !.chunks = s, !.first = first]
      BY DEF Close
    <3> HIDE DEF s, first
    <3> QED
      BY <1>3, <3>1 DEF Gathering
  <2>3. first \in Int /\ first <= c.last /\ c.last - first < OVERLAP
    BY <1>3, <1>4, ChunkAssumption DEF Kept
  <2> HIDE DEF s, first
  <2>4. e = [first |-> first, last |-> words[p + 1], chunks |-> s]
    BY <1>2, <1>3, <1>6, <1>7, <2>2
  <2> HIDE DEF e
  <2>5. y = [first |-> first, last |-> words[p + 1]] /\ y \in Piece
    BY <1>2, <2>3, <2>4 DEF Chunk, Piece
  <2> HIDE DEF y
  <2>6. words[p + 1] - first < OVERLAP + k
    BY <1>2, <1>3, <2>3, ChunkAssumption
  <2>7. Small(text, words, y) /\ Small(text, words, e)
    BY <1>2, <2>4, <2>5, <2>6 DEF Small, k
  <2>8. /\ Covers(text, words, p, s) /\ y.first <= words[p] + 1 /\ y.last = words[p + 1]
        /\ Shares(s[Len(s)], y)
    <3>1. s[Len(s)] = x
      BY <1>4, <1>5, AppendProperties DEF s
    <3>2. Shares(x, y)
      BY <1>4, <1>5, <2>5, ChunkAssumption DEF Shares, AtMost, Kept, first
    <3> QED
      BY <1>2, <1>3, <2>3, <2>5, <3>1, <3>2 DEF s
  <2>9. Covers(text, words, p + 1, Append(s, y))
    BY <1>1, <2>5, <2>7, <2>8, CoverGrows
  <2>10. e \in Gathering /\ e.first <= e.last /\ e.last = words[p + 1] /\ e.chunks = s
    BY <1>2, <1>3, <2>1, <2>3, <2>4 DEF Gathering
  <2> QED
    BY <1>1, <2>7, <2>9, <2>10 DEF Cut, y, e, k
<1>8. CASE ~closes
  <2>1. e = [first |-> c.first, last |-> words[p + 1], chunks |-> c.chunks]
    BY <1>2, <1>3, <1>6, <1>8 DEF Gathering
  <2>2. words[p + 1] - c.first < PER_CHUNK
    BY <1>2, <1>3, <1>4, <1>8, ChunkAssumption
  <2> HIDE DEF e
  <2>3. y = [first |-> c.first, last |-> words[p + 1]] /\ y \in Piece
    BY <1>2, <1>4, <2>1 DEF Chunk, Piece
  <2> HIDE DEF y
  <2>4. Small(text, words, y) /\ Small(text, words, e)
    BY <2>1, <2>2, <2>3 DEF Small
  <2>5. x.first <= x.last /\ y.first = x.first /\ y.last = words[p + 1]
    BY <1>3, <1>5, <2>3
  <2> HIDE DEF x
  <2>6. Covers(text, words, p + 1, Append(c.chunks, y))
    BY <1>1, <1>3, <1>4, <1>5, <2>3, <2>4, <2>5, CoverWidens
  <2>7. e \in Gathering /\ e.first <= e.last /\ e.last = words[p + 1] /\ e.chunks = c.chunks
    BY <1>2, <1>3, <1>4, <2>1 DEF Gathering
  <2> QED
    BY <1>1, <2>4, <2>6, <2>7 DEF Cut, y, e, k
<1> QED
  BY <1>7, <1>8

\* The chunks of a text cover it: by induction along its paragraphs.
LEMMA ChunksCover ==
  ASSUME NEW text \in Seq(Nat \ {0})
  PROVE  /\ text = <<>> => chunk_text(text) = <<>>
         /\ text # <<>> => Covers(text, WordsOf(text), Len(text), chunk_text(text))
<1> DEFINE words == WordsOf(text)   N == Len(text)
           S == Gathering   first == Empty
           step == [p \in 1 .. N |-> [c \in S |-> AddParagraph(c, text[p])]]
           after == CHOOSE g : g = [p \in 0 .. N |->
                      IF p = 0 THEN Empty ELSE AddParagraph(g[p - 1], text[p])]
<1>1. N \in Nat /\ \A p \in 1 .. N : text[p] \in Nat \ {0}
  BY LenProperties, ElementOfSeq
<1>2. first \in S
  BY EmptySeq DEF Empty, Gathering
<1>3. ASSUME NEW c \in Gathering, NEW k \in Nat PROVE AddParagraph(c, k) \in Gathering
  <2>1. c.first \in Int /\ c.last \in Int /\ c.chunks \in Seq(Piece)
    BY DEF Gathering
  <2>2. Chunk(c) \in Piece /\ Kept(c) \in Int
    BY <2>1, ChunkAssumption DEF Chunk, Piece, Kept, Gathered
  <2>3. Append(c.chunks, Chunk(c)) \in Seq(Piece)
    BY <2>1, <2>2, AppendProperties
  <2>4. Close(c) \in Gathering
    <3> DEFINE s == Append(c.chunks, Chunk(c))   kept == Kept(c)
    <3>1. Close(c) = [c EXCEPT !.chunks = s, !.first = kept]
      BY DEF Close
    <3>2. s \in Seq(Piece) /\ kept \in Int
      BY <2>2, <2>3
    <3> HIDE DEF s, kept
    <3> QED
      BY <3>1, <3>2 DEF Gathering
  <2>5. ASSUME NEW d \in Gathering PROVE [d EXCEPT !.last = d.last + k] \in Gathering
    <3> DEFINE last == d.last + k
    <3>1. last \in Int
      BY DEF Gathering
    <3> HIDE DEF last
    <3>2. [d EXCEPT !.last = last] \in Gathering
      BY <3>1 DEF Gathering
    <3> QED
      BY <3>2 DEF last
  <2>6. \E d \in {Close(c), c} : AddParagraph(c, k) = [d EXCEPT !.last = d.last + k]
    BY DEF AddParagraph
  <2> QED
    BY <2>4, <2>5, <2>6
<1>4. step \in [1 .. N -> [S -> S]]
  BY <1>1, <1>3
<1>5. PICK f \in [0 .. N -> S] : Iterates(f, N, first, step)
  <2> HIDE DEF N, S, first, step
  <2> QED
    BY <1>1, <1>2, <1>4, IterationExists
<1>6. f = [p \in 0 .. N |-> IF p = 0 THEN Empty ELSE AddParagraph(f[p - 1], text[p])]
  <2> DEFINE h == [p \in 0 .. N |-> IF p = 0 THEN Empty ELSE AddParagraph(f[p - 1], text[p])]
  <2>1. ASSUME NEW p \in 0 .. N PROVE f[p] = h[p]
    <3>1. CASE p = 0
      BY <1>5, <3>1 DEF Iterates
    <3>2. CASE p # 0
      <4>1. p \in 1 .. N /\ p - 1 \in 0 .. N
        BY <1>1, <3>2
      <4>2. f[p] = step[p][f[p - 1]] /\ f[p - 1] \in S
        BY <1>5, <4>1 DEF Iterates
      <4> QED
        BY <3>2, <4>1, <4>2
    <3> QED
      BY <3>1, <3>2
  <2>2. h = [p \in 0 .. N |-> h[p]] /\ f = [p \in 0 .. N |-> f[p]]
    OBVIOUS
  <2> HIDE DEF h, N
  <2>3. f = h
    BY <2>1, <2>2
  <2> QED
    BY <2>3 DEF h
<1>7. after = [p \in 0 .. N |-> IF p = 0 THEN Empty ELSE AddParagraph(after[p - 1], text[p])]
  <2> HIDE DEF N
  <2> QED
    BY <1>6
<1>8. chunk_text(text) = IF Gathered(after[N]) > 0 THEN Append(after[N].chunks, Chunk(after[N]))
                         ELSE after[N].chunks
  BY DEF chunk_text
<1> HIDE DEF after
<1>9. Sums(words, text)
  BY WordsAre
<1> HIDE DEF words
<1> DEFINE cut == {p \in 1 .. N : Cut(text, words, p, after[p])}
<1>10. after[0] = Empty
  BY <1>1, <1>7
<1>11. ASSUME N > 0 PROVE 1 \in cut
  <2>1. 1 \in 1 .. N /\ 1 \in 0 .. N /\ 1 - 1 = 0 /\ 1 # 0
    BY <1>1, <1>11
  <2>2. after[1] = AddParagraph(Empty, text[1])
    BY <1>7, <1>10, <2>1
  <2> QED
    BY <1>9, <1>11, <2>1, <2>2, FirstParagraph
<1>12. ASSUME NEW p \in 1 .. N - 1, p \in cut PROVE p + 1 \in cut
  <2>1. p + 1 \in 1 .. N /\ p + 1 \in 0 .. N /\ p + 1 # 0 /\ (p + 1) - 1 = p
    BY <1>1
  <2>2. after[p + 1] = AddParagraph(after[p], text[p + 1])
    BY <1>7, <2>1
  <2>3. Cut(text, words, p, after[p])
    BY <1>12
  <2>4. Cut(text, words, p + 1, AddParagraph(after[p], text[p + 1]))
    BY <1>9, <2>3, NextParagraph
  <2> QED
    BY <2>1, <2>2, <2>4
<1>13. CASE text = <<>>
  <2>1. N = 0
    BY <1>13, EmptySeq
  <2>2. after[N] = Empty /\ Gathered(Empty) = 0 /\ Empty.chunks = <<>>
    BY <1>10, <2>1 DEF Gathered, Empty
  <2>3. chunk_text(text) = <<>>
    BY <1>8, <2>2
  <2> QED
    BY <1>13, <2>3
<1>14. CASE text # <<>>
  <2>1. N \in Nat \ {0}
    BY <1>14, EmptySeq
  <2>2. N \in cut
    <3> HIDE DEF cut, N
    <3>1. N \in Int /\ 1 \in Int /\ 1 \in cut /\ \A p \in 1 .. N - 1 : p \in cut => p + 1 \in cut
      BY <1>11, <1>12, <2>1
    <3>2. 1 .. N \subseteq cut
      BY <3>1, ReachedBySteps
    <3> QED
      BY <2>1, <3>2
  <2>3. /\ after[N] \in Gathering /\ after[N].first <= after[N].last
        /\ Covers(text, words, N, Append(after[N].chunks, Chunk(after[N])))
    BY <2>1, <2>2 DEF Cut
  <2>4. Gathered(after[N]) > 0
    BY <2>3 DEF Gathered, Gathering
  <2> QED
    BY <1>8, <1>14, <2>3, <2>4 DEF words
<1> QED
  BY <1>13, <1>14

-----------------------------------------------------------------------------
(* Free slots *)

\* Quotient and remainder by a positive number.
LEMMA Division ==
  ASSUME NEW k \in Nat \ {0}
  PROVE  /\ \A t \in Int : t \div k \in Int /\ t % k \in 0 .. k - 1 /\ t = (t \div k) * k + (t % k)
         /\ \A d \in Int, x \in 0 .. k - 1 : (d * k + x) \div k = d /\ (d * k + x) % k = x
OBVIOUS

\* Multiples of a natural number are in the order of their factors.
LEMMA ProductOrder ==
  ASSUME NEW a \in Int, NEW b \in Int, NEW k \in Nat
  PROVE  /\ a <= b => a * k <= b * k
         /\ a < b => a * k + k <= b * k
OBVIOUS

\* A start of a working day lies on that day, within the working hours.
LEMMA StartsAre ==
  ASSUME NEW d \in Int, NEW t
  PROVE  t \in Starts(d) <=> /\ t \in Int /\ t \div DAY = d
                             /\ t % DAY >= work_start /\ (t % DAY) + duration <= work_end
                             /\ ((t % DAY) - work_start) % duration = 0
<1>0. /\ DAY \in Nat \ {0} /\ work_start \in 0 .. DAY /\ work_end \in 0 .. DAY
      /\ duration \in Nat \ {0}
  BY SlotAssumption
<1>1. d * DAY \in Int
  BY <1>0
<1>2. ASSUME t \in Starts(d)
      PROVE  /\ t \in Int /\ t \div DAY = d
             /\ t % DAY >= work_start /\ (t % DAY) + duration <= work_end
             /\ ((t % DAY) - work_start) % duration = 0
  <2> DEFINE x == t - d * DAY
  <2>1. /\ t \in Int /\ x \in Int /\ x >= work_start /\ x + duration <= work_end
        /\ (t - work_start - d * DAY) % duration = 0 /\ t = d * DAY + x
    BY <1>0, <1>1, <1>2 DEF Starts
  <2>2. t - work_start - d * DAY = x - work_start
    BY <1>0, <1>1, <2>1
  <2>3. x \in 0 .. DAY - 1
    BY <1>0, <2>1
  <2> HIDE DEF x
  <2>4. t \div DAY = d /\ t % DAY = x
    BY <1>0, <2>1, <2>3, Division
  <2> QED
    BY <2>1, <2>2, <2>4
<1>3. ASSUME t \in Int, t \div DAY = d, t % DAY >= work_start, (t % DAY) + duration <= work_end,
             ((t % DAY) - work_start) % duration = 0
      PROVE  t \in Starts(d)
  <2> DEFINE x == t % DAY
  <2>0. t = (t \div DAY) * DAY + x /\ x \in 0 .. DAY - 1
    BY <1>0, <1>3, Division
  <2>1. t = d * DAY + x /\ x \in Int
    <3> HIDE DEF x
    <3> QED
      BY <1>0, <1>3, <2>0
  <2>2. x >= work_start /\ x + duration <= work_end /\ (x - work_start) % duration = 0
    BY <1>3
  <2> HIDE DEF x
  <2>3. t - work_start - d * DAY = x - work_start
    BY <1>0, <1>1, <2>1
  <2>4. t \in d * DAY + work_start .. d * DAY + work_end - duration
    BY <1>0, <1>1, <2>1, <2>2
  <2> QED
    BY <2>2, <2>3, <2>4 DEF Starts
<1> QED
  BY <1>2, <1>3

\* The open times of a search: on its days, within working hours, in finite number.
LEMMA OpenIs ==
  ASSUME NEW busy, NEW now \in Nat, NEW days \in Nat
  PROVE  /\ IsFiniteSet(Open(busy, now, days)) /\ Open(busy, now, days) \subseteq Int
         /\ \A t \in Open(busy, now, days) :
              /\ t > now + notice /\ (t \div DAY) % 7 \in allowed_days
              /\ t % DAY >= work_start /\ (t % DAY) + duration <= work_end
              /\ \A m \in busy : ~Conflict(t, m)
<1> DEFINE open == Open(busy, now, days)   end == now \div DAY + days
<1>0. /\ DAY \in Nat \ {0} /\ work_end \in 0 .. DAY /\ duration \in Nat \ {0} /\ notice \in Nat
      /\ now \div DAY \in Int /\ end \in Int
  BY SlotAssumption, Division
<1>1. ASSUME NEW t \in open
      PROVE  /\ t \in Int /\ t > now + notice /\ (t \div DAY) % 7 \in allowed_days
             /\ t % DAY >= work_start /\ (t % DAY) + duration <= work_end
             /\ \A m \in busy : ~Conflict(t, m)
             /\ t \div DAY <= end
  <2>1. PICK d \in Days(now, days) : t \in Starts(d)
    BY DEF Open
  <2>2. d \in Int /\ d <= end /\ d % 7 \in allowed_days
    BY <1>0, <2>1 DEF Days
  <2>3. /\ t \in Int /\ t \div DAY = d
        /\ t % DAY >= work_start /\ (t % DAY) + duration <= work_end
    BY <2>1, <2>2, StartsAre
  <2>4. t > now + notice /\ \A m \in busy : ~Conflict(t, m)
    BY DEF Open
  <2> QED
    BY <2>2, <2>3, <2>4
<1> HIDE DEF open, end
<1>2. open \in SUBSET (0 .. end * DAY + DAY)
  <2> SUFFICES ASSUME NEW t \in open PROVE t \in 0 .. end * DAY + DAY
    OBVIOUS
  <2>1. /\ t \in Int /\ t > now + notice /\ t \div DAY <= end
        /\ t \div DAY \in Int /\ t % DAY \in 0 .. DAY - 1 /\ t = (t \div DAY) * DAY + (t % DAY)
    BY <1>0, <1>1, Division
  <2>2. (t \div DAY) * DAY <= end * DAY
    BY <1>0, <2>1, ProductOrder
  <2> DEFINE a == (t \div DAY) * DAY   b == end * DAY   x == t % DAY
  <2>3. a \in Int /\ b \in Int /\ x \in 0 .. DAY - 1 /\ t = a + x /\ a <= b
    BY <1>0, <2>1, <2>2
  <2> HIDE DEF a, b, x
  <2>4. t \in 0 .. b + DAY
    BY <1>0, <2>1, <2>3
  <2> QED
    BY <2>4 DEF b
<1>3. IsFiniteSet(0 .. end * DAY + DAY)
  <2>1. end * DAY + DAY \in Int
    BY <1>0
  <2> QED
    BY <2>1, FS_Interval
<1>4. IsFiniteSet(open)
  BY <1>2, <1>3, FS_Subset
<1> QED
  BY <1>1, <1>4 DEF open

\* Every start in the searched days that no meeting takes is an open time.
LEMMA OpenHas ==
  ASSUME NEW busy, NEW now \in Nat, NEW days \in Nat,
         NEW t \in now + notice + 1 .. now + days * DAY,
         (t \div DAY) % 7 \in allowed_days,
         t % DAY >= work_start, (t % DAY) + duration <= work_end,
         ((t % DAY) - work_start) % duration = 0,
         \A m \in busy : ~Conflict(t, m)
  PROVE  t \in Open(busy, now, days)
<1> DEFINE d == t \div DAY   first == now \div DAY   last == first + days
<1>0. DAY \in Nat \ {0} /\ notice \in Nat /\ t \in Int /\ t > now /\ days * DAY \in Int
  BY SlotAssumption
<1>1. /\ d \in Int /\ first \in Int /\ last \in Int
      /\ t = d * DAY + (t % DAY) /\ t % DAY \in 0 .. DAY - 1
      /\ now = first * DAY + (now % DAY) /\ now % DAY \in 0 .. DAY - 1
  BY <1>0, Division
<1>2. t \in Starts(d)
  BY <1>0, <1>1, StartsAre
<1> HIDE DEF d, first, last
<1> DEFINE x == t % DAY   y == now % DAY
<1>3. /\ t = d * DAY + x /\ x \in 0 .. DAY - 1 /\ now = first * DAY + y /\ y \in 0 .. DAY - 1
      /\ t <= now + days * DAY
  BY <1>1
<1> HIDE DEF x, y
<1>4. first <= d
  <2> SUFFICES ASSUME d < first PROVE FALSE
    BY <1>1
  <2>1. d * DAY + DAY <= first * DAY /\ d * DAY \in Int /\ first * DAY \in Int
    BY <1>0, <1>1, ProductOrder
  <2> DEFINE a == d * DAY   b == first * DAY
  <2>2. a + DAY <= b /\ a \in Int /\ b \in Int /\ t = a + x /\ now = b + y
    BY <1>3, <2>1
  <2> HIDE DEF a, b
  <2> QED
    BY <1>0, <1>3, <2>2
<1>5. d <= last
  <2> SUFFICES ASSUME last < d PROVE FALSE
    BY <1>1
  <2>1. last * DAY + DAY <= d * DAY /\ d * DAY \in Int /\ last * DAY \in Int
    BY <1>0, <1>1, ProductOrder
  <2>2. last * DAY = first * DAY + days * DAY
    BY <1>0, <1>1 DEF last
  <2> DEFINE a == d * DAY   b == first * DAY   c == days * DAY
  <2>3. b + c + DAY <= a /\ a \in Int /\ b \in Int /\ c \in Int /\ t = a + x /\ now = b + y /\ t <= now + c
    BY <1>0, <1>1, <1>3, <2>1, <2>2
  <2> HIDE DEF a, b, c
  <2> QED
    BY <1>0, <1>3, <2>3
<1>6. d \in Days(now, days)
  BY <1>1, <1>4, <1>5 DEF Days, d, first, last
<1>7. t > now + notice
  BY <1>0
<1> QED
  BY <1>2, <1>6, <1>7 DEF Open

\* What is offered: the first of the open times, each in its place.
Offers(slots, open) ==
  LET n == Min({max_slots, Cardinality(open)})
  IN /\ slots \in Seq(Int) /\ Len(slots) = n /\ DOMAIN slots = 1 .. n
     /\ n \in Nat /\ n <= max_slots /\ n <= Cardinality(open)
     /\ n < max_slots => n = Cardinality(open)
     /\ \A i \in 1 .. n : slots[i] \in open /\ Cardinality(UpTo(open, slots[i])) = i

\* The open times a search sees, and what it returns.
Looked(s) == Open(BusyBlocks(s.meetings, s.now, s.days_ahead, s.answers), s.now, s.days_ahead)
Found(s) == find_available_slots(s.meetings, s.now, s.days_ahead, s.answers)

\* The inputs of a search.
LEMMA SearchIs ==
  ASSUME NEW s \in Searches
  PROVE  /\ s.now \in Nat /\ s.days_ahead \in Nat
         /\ \A m \in s.meetings : m.from \in Int /\ m.to \in Int
BY InputAssumption

\* find_available_slots takes the open times from the first on.
LEMMA OffersAre ==
  ASSUME NEW s \in Searches
  PROVE  Offers(Found(s), Looked(s))
<1> DEFINE open == Looked(s)   n == Min({max_slots, Cardinality(open)})
           slots == [k \in 1 .. n |-> Nth(open, k)]
<1>1. IsFiniteSet(open) /\ open \subseteq Int
  BY SearchIs, OpenIs DEF Looked
<1>2. Found(s) = slots
  BY DEF Found, find_available_slots, Looked
<1> HIDE DEF open
<1>3. Cardinality(open) \in Nat /\ max_slots \in Nat
  BY <1>1, FS_CardinalityType, SlotAssumption
<1>4. IF max_slots <= Cardinality(open) THEN n = max_slots ELSE n = Cardinality(open)
  BY <1>3 DEF Min
<1>5. /\ n \in Nat /\ n <= max_slots /\ n <= Cardinality(open)
      /\ n < max_slots => n = Cardinality(open)
  BY <1>3, <1>4
<1> HIDE DEF n
<1>6. ASSUME NEW k \in 1 .. n PROVE Nth(open, k) \in open /\ Cardinality(UpTo(open, Nth(open, k))) = k
  <2>1. k \in 1 .. Cardinality(open)
    BY <1>3, <1>5
  <2> QED
    BY <1>1, <2>1, NthIsThere
<1>7. slots \in [1 .. n -> Int]
  BY <1>1, <1>6
<1>8. slots \in Seq(Int) /\ Len(slots) = n /\ DOMAIN slots = 1 .. n
  <2>1. \A i \in 1 .. n : slots[i] = Nth(open, i)
    OBVIOUS
  <2> HIDE DEF slots
  <2> QED
    BY <1>5, <1>7
<1>9. \A i \in 1 .. n : slots[i] \in open /\ Cardinality(UpTo(open, slots[i])) = i
  BY <1>6
<1> HIDE DEF slots
<1>10. Offers(slots, open)
  BY <1>5, <1>8, <1>9 DEF Offers, n
<1> QED
  BY <1>2, <1>10 DEF open

\* An offered time is open, and what is asked for reaches every meeting it could meet.
LEMMA OfferedIsFree ==
  ASSUME NEW s \in Searches, NEW i \in DOMAIN Found(s)
  PROVE  LET start == Found(s)[i]
         IN /\ start > s.now + notice /\ (start \div DAY) % 7 \in allowed_days
            /\ start % DAY >= work_start /\ (start % DAY) + duration <= work_end
            /\ start + duration + buffer <= s.now + s.days_ahead * DAY =>
                 \A m \in s.meetings :
                   /\ m.at = "appointments" \/ s.answers
                   /\ m.to > s.now \/ buffer <= notice
                   => m.to + buffer <= start \/ m.from >= start + duration + buffer
<1> DEFINE start == Found(s)[i]   busy == BusyBlocks(s.meetings, s.now, s.days_ahead, s.answers)
           end == s.now + s.days_ahead * DAY
<1>1. start \in Looked(s)
  BY OffersAre DEF Offers
<1> HIDE DEF start
<1>2. s.now \in Nat /\ s.days_ahead \in Nat
  BY SearchIs
<1>3. /\ start \in Int /\ start > s.now + notice /\ (start \div DAY) % 7 \in allowed_days
      /\ start % DAY >= work_start /\ (start % DAY) + duration <= work_end
      /\ \A m \in busy : ~Conflict(start, m)
  BY <1>1, <1>2, OpenIs DEF Looked
<1>4. ASSUME start + duration + buffer <= end, NEW m \in s.meetings,
             m.at = "appointments" \/ s.answers, m.to > s.now \/ buffer <= notice
      PROVE  m.to + buffer <= start \/ m.from >= start + duration + buffer
  <2> DEFINE now == s.now
  <2>1. /\ m.from \in Int /\ m.to \in Int /\ duration \in Nat /\ buffer \in Nat /\ notice \in Nat
        /\ end \in Int /\ now \in Nat /\ start > now + notice
    BY <1>2, <1>3, SearchIs, SlotAssumption
  <2>2. CASE m.from < end /\ m.to > now
    <3>1. m \in busy
      BY <1>4, <2>2 DEF BusyBlocks, Window
    <3>2. ~(start < m.to + buffer /\ start + duration > m.from - buffer)
      BY <1>3, <3>1 DEF Conflict
    <3> QED
      BY <1>3, <2>1, <3>2
  <2>3. CASE ~(m.from < end)
    <3> HIDE DEF end
    <3> QED
      BY <1>3, <1>4, <2>1, <2>3
  <2>4. CASE ~(m.to > now)
    <3> HIDE DEF end
    <3>1. buffer <= notice
      BY <1>4, <2>4
    <3> HIDE DEF now
    <3> QED
      BY <1>3, <2>1, <2>4, <3>1
  <2> QED
    BY <2>2, <2>3, <2>4
<1> QED
  BY <1>3, <1>4 DEF start

\* A bookable start is an open time, so its place among them is offered or comes too late.
LEMMA EarliestIsOffered ==
  ASSUME NEW s \in Searches, NEW t \in s.now + notice + 1 .. s.now + s.days_ahead * DAY,
         (t \div DAY) % 7 \in allowed_days,
         t % DAY >= work_start, (t % DAY) + duration <= work_end,
         ((t % DAY) - work_start) % duration = 0,
         \A m \in s.meetings : m.to + buffer <= t \/ m.from >= t + duration + buffer
  PROVE  \/ \E i \in DOMAIN Found(s) : Found(s)[i] = t
         \/ Len(Found(s)) = max_slots /\ Found(s)[max_slots] < t
<1> DEFINE open == Looked(s)   slots == Found(s)   n == Min({max_slots, Cardinality(open)})
           busy == BusyBlocks(s.meetings, s.now, s.days_ahead, s.answers)
           place == Cardinality(UpTo(open, t))
<1>1. s.now \in Nat /\ s.days_ahead \in Nat /\ t \in Int
  BY SearchIs, SlotAssumption
<1>2. \A m \in busy : ~Conflict(t, m)
  <2> SUFFICES ASSUME NEW m \in busy PROVE ~Conflict(t, m)
    OBVIOUS
  <2>1. m \in s.meetings
    BY DEF BusyBlocks, Window
  <2>2. m.from \in Int /\ m.to \in Int /\ duration \in Nat /\ buffer \in Nat
    BY <2>1, SearchIs, SlotAssumption
  <2>3. m.to + buffer <= t \/ m.from >= t + duration + buffer
    BY <2>1
  <2> QED
    BY <1>1, <2>2, <2>3 DEF Conflict
<1>3. t \in open
  BY <1>1, <1>2, OpenHas DEF Looked
<1>4. IsFiniteSet(open) /\ open \subseteq Int
  BY <1>1, OpenIs DEF Looked
<1>5. /\ Len(slots) = n /\ DOMAIN slots = 1 .. n /\ n \in Nat /\ n <= max_slots
      /\ n < max_slots => n = Cardinality(open)
      /\ \A i \in 1 .. n : slots[i] \in open /\ Cardinality(UpTo(open, slots[i])) = i
  BY OffersAre DEF Offers
<1> HIDE DEF open, slots, n
<1>6. /\ place \in 1 .. Cardinality(open) /\ Cardinality(open) \in Nat
      /\ \A a, b \in open : a < b => Cardinality(UpTo(open, a)) < Cardinality(UpTo(open, b))
  BY <1>3, <1>4, CountingRanks, FS_CardinalityType
<1>7. CASE place <= n
  <2>1. place \in 1 .. n
    BY <1>5, <1>6, <1>7
  <2>2. slots[place] \in open /\ Cardinality(UpTo(open, slots[place])) = place
    BY <1>5, <2>1
  <2> DEFINE u == slots[place]
  <2>3. u \in open /\ u \in Int /\ Cardinality(UpTo(open, u)) = place
    BY <1>4, <2>2
  <2> HIDE DEF u
  <2>4. u = t
    <3>1. ~(u < t)
      BY <1>3, <1>6, <2>3
    <3>2. ~(t < u)
      BY <1>3, <1>6, <2>3
    <3> QED
      BY <1>1, <2>3, <3>1, <3>2
  <2> QED
    BY <1>5, <2>1, <2>4 DEF slots, u
<1>8. CASE ~(place <= n)
  <2>1. n = max_slots /\ max_slots \in 1 .. n
    BY <1>5, <1>6, <1>8, SlotAssumption
  <2>2. slots[max_slots] \in open /\ Cardinality(UpTo(open, slots[max_slots])) = max_slots
    BY <1>5, <2>1
  <2> DEFINE u == slots[max_slots]
  <2>3. u \in open /\ u \in Int /\ Cardinality(UpTo(open, u)) = max_slots
    BY <1>4, <2>2
  <2> HIDE DEF u
  <2>4. u < t
    <3>1. max_slots < place
      BY <1>5, <1>6, <1>8, <2>1
    <3>2. u # t
      BY <1>6, <2>1, <2>3, <3>1
    <3>3. ~(t < u)
      <4> SUFFICES ASSUME t < u PROVE FALSE
        OBVIOUS
      <4>1. place < max_slots
        BY <1>3, <1>6, <2>3
      <4> QED
        BY <1>5, <1>6, <2>1, <3>1, <4>1
    <3> QED
      BY <1>1, <2>3, <3>2, <3>3
  <2> QED
    BY <1>5, <2>1, <2>4 DEF slots, u
<1> QED
  BY <1>7, <1>8

-----------------------------------------------------------------------------
(* Decisions *)

\* What the last decision was, from its inputs.
Scheduled(now, d, h, j) ==
  [of |-> "send_time", now |-> now, days |-> d, hours |-> h, jitter |-> j,
   slot |-> calculate_next_send_time(now, d, h, j)]
Scored(l) == [of |-> "score", lead |-> l, score |-> evaluate_lead_score(l)]
Verified(d, before, after, proven, v) ==
  [of |-> "draft", draft |-> d, before |-> before, after |-> after, proven |-> proven,
   released |-> Released(v)]
CutUp(text) == [of |-> "chunks", text |-> text, chunks |-> chunk_text(text)]
Offered(s) == [of |-> "slots", search |-> s, slots |-> Found(s)]

Decided ==
  \/ done = Nothing
  \/ \E now \in Moments, d \in DelayDays, h \in DelayHours, j \in Jitters : done = Scheduled(now, d, h, j)
  \/ \E l \in Leads : done = Scored(l)
  \/ \E d \in Drafts, before \in Policies, after \in Policies, proven \in BOOLEAN :
       \E v \in verify_draft(d, before, after, proven) : done = Verified(d, before, after, proven, v)
  \/ \E text \in Texts : done = CutUp(text)
  \/ \E s \in Searches : done = Offered(s)

\* The kind of the decision tells its inputs.
LEMMA KindTells ==
  ASSUME Decided
  PROVE  /\ done.of = "send_time" =>
              \E now \in Moments, d \in DelayDays, h \in DelayHours, j \in Jitters :
                done = Scheduled(now, d, h, j)
         /\ done.of = "score" => \E l \in Leads : done = Scored(l)
         /\ done.of = "draft" =>
              \E d \in Drafts, before \in Policies, after \in Policies, proven \in BOOLEAN :
                \E v \in verify_draft(d, before, after, proven) : done = Verified(d, before, after, proven, v)
         /\ done.of = "chunks" => \E text \in Texts : done = CutUp(text)
         /\ done.of = "slots" => \E s \in Searches : done = Offered(s)
<1>1. Nothing.of = "nothing"
  BY DEF Nothing
<1>2. \A now, d, h, j : Scheduled(now, d, h, j).of = "send_time"
  BY DEF Scheduled
<1>3. \A l : Scored(l).of = "score"
  BY DEF Scored
<1>4. \A d, before, after, proven, v : Verified(d, before, after, proven, v).of = "draft"
  BY DEF Verified
<1>5. \A text : CutUp(text).of = "chunks"
  BY DEF CutUp
<1>6. \A s : Offered(s).of = "slots"
  BY DEF Offered
<1> QED
  BY <1>1, <1>2, <1>3, <1>4, <1>5, <1>6 DEF Decided

\* A rescheduled step keeps its delays, and its jitter is drawn anew.
LEMMA RescheduleIs ==
  ASSUME Decided, ScheduleLater
  PROVE  \E now \in Moments, later \in Moments, d \in DelayDays, h \in DelayHours,
            j \in Jitters, drawn \in Jitters :
           later > now /\ done = Scheduled(now, d, h, j) /\ done' = Scheduled(later, d, h, drawn)
<1>1. PICK now \in Moments, d \in DelayDays, h \in DelayHours, j \in Jitters :
        done = Scheduled(now, d, h, j)
  BY KindTells DEF ScheduleLater
<1>2. PICK later \in Moments, drawn \in Jitters :
        /\ later > done.now
        /\ done' = [done EXCEPT !.now = later, !.jitter = drawn,
                      !.slot = calculate_next_send_time(later, done.days, done.hours, drawn)]
  BY DEF ScheduleLater
<1>3. done.now = now /\ done.days = d /\ done.hours = h
  BY <1>1 DEF Scheduled
<1> DEFINE slot == calculate_next_send_time(later, d, h, drawn)
<1>4. done' = [done EXCEPT !.now = later, !.jitter = drawn, !.slot = slot]
  BY <1>2, <1>3
<1> HIDE DEF slot
<1>5. done' = [of |-> "send_time", now |-> later, days |-> d, hours |-> h, jitter |-> drawn,
               slot |-> slot]
  BY <1>1, <1>4 DEF Scheduled
<1>6. done' = Scheduled(later, d, h, drawn)
  BY <1>5 DEF Scheduled, slot
<1> QED
  BY <1>1, <1>2, <1>3, <1>6

\* Every decision is what its operator makes of some inputs.
LEMMA DecidedHolds == Spec => []Decided
<1>1. Init => Decided
  BY DEF Init, Decided
<1>2. Decided /\ [Next]_vars => Decided'
  <2> SUFFICES ASSUME Decided, [Next]_vars PROVE Decided'
    OBVIOUS
  <2>1. CASE ScheduleStep
    BY <2>1 DEF ScheduleStep, Decided, Scheduled
  <2>2. CASE ScheduleLater
    <3>1. \E now \in Moments, d \in DelayDays, h \in DelayHours, j \in Jitters :
            done' = Scheduled(now, d, h, j)
      BY <2>2, RescheduleIs
    <3> QED
      BY <3>1 DEF Decided
  <2>3. CASE ScoreLead
    BY <2>3 DEF ScoreLead, Decided, Scored
  <2>4. CASE VerifyDraft
    BY <2>4 DEF VerifyDraft, Decided, Verified
  <2>5. CASE CutText
    BY <2>5 DEF CutText, Decided, CutUp
  <2>6. CASE OfferSlots
    BY <2>6 DEF OfferSlots, Decided, Offered, Found
  <2>7. CASE UNCHANGED vars
    BY <2>7 DEF vars, Decided
  <2> QED
    BY <2>1, <2>2, <2>3, <2>4, <2>5, <2>6, <2>7 DEF Next
<1> QED
  BY <1>1, <1>2, PTL DEF Spec

\* Whatever the host's hours, the moment, the delays and the jitter, a step falls due on a weekday
\* within business hours, after now, and no earlier than its delay in business days.
THEOREM SendTimesKeepTheSlot == Spec => []SlotKept
<1>1. Decided => SlotKept
  <2> SUFFICES ASSUME Decided, done.of = "send_time" PROVE SlotKept
    BY DEF SlotKept
  <2>1. PICK now \in Moments, d \in DelayDays, h \in DelayHours, j \in Jitters :
          done = Scheduled(now, d, h, j)
    BY KindTells
  <2> DEFINE slot == calculate_next_send_time(now, d, h, j)
  <2>2. done.slot = slot /\ done.now = now /\ done.days = d
    BY <2>1 DEF Scheduled
  <2>3. now \in Int /\ d \in Nat /\ h \in Nat /\ j \in 0 .. 59
    BY InputAssumption
  <2>4. /\ slot > now /\ ~Weekend(Day(slot)) /\ Hour(slot) \in start_hour .. end_hour - 1
        /\ Cardinality({b \in Day(now) + 1 .. Day(slot) : ~Weekend(b)}) >= d
    BY <2>3, SendTimeIs DEF Business
  <2> HIDE DEF slot
  <2> QED
    BY <2>2, <2>4 DEF SlotKept
<1> QED
  BY <1>1, DecidedHolds, PTL

\* Of two moments the later one never gives an earlier hour, unless the first draw had passed.
THEOREM SendTimesKeepTheOrder == Spec => LaterNeverSooner
<1>1. Decided /\ [Next]_vars =>
        [done.of = "send_time" /\ done'.of = "send_time" =>
           \/ done'.slot - done'.jitter >= done.slot - done.jitter
           \/ done'.slot - done'.jitter + done.jitter <= done.now]_vars
  <2> SUFFICES ASSUME Decided, Next, done.of = "send_time", done'.of = "send_time"
               PROVE  \/ done'.slot - done'.jitter >= done.slot - done.jitter
                      \/ done'.slot - done'.jitter + done.jitter <= done.now
    BY DEF vars
  <2>1. ScheduleLater
    <3>1. done # Nothing
      BY DEF Nothing
    <3> QED
      BY <3>1 DEF Next, ScheduleStep, ScoreLead, VerifyDraft, CutText, OfferSlots
  <2>2. PICK now \in Moments, later \in Moments, d \in DelayDays, h \in DelayHours,
             j \in Jitters, drawn \in Jitters :
          later > now /\ done = Scheduled(now, d, h, j) /\ done' = Scheduled(later, d, h, drawn)
    BY <2>1, RescheduleIs
  <2> DEFINE slot == calculate_next_send_time(now, d, h, j)
             next == calculate_next_send_time(later, d, h, drawn)
  <2>3. /\ now \in Int /\ later \in Int /\ d \in Nat /\ h \in Nat
        /\ j \in 0 .. 59 /\ drawn \in 0 .. 59 /\ now < later
    BY <2>2, InputAssumption
  <2>4. /\ slot \in Int /\ next \in Int
        /\ slot - j <= next - drawn \/ next - drawn + j <= now
    BY <2>3, SendTimeOrder, SendTimeIs
  <2>5. /\ done.slot = slot /\ done.now = now /\ done.jitter = j
        /\ done'.slot = next /\ done'.jitter = drawn
    BY <2>2 DEF Scheduled
  <2> HIDE DEF slot, next
  <2> QED
    BY <2>3, <2>4, <2>5
<1> QED
  BY <1>1, DecidedHolds, PTL DEF Spec, LaterNeverSooner

\* No lead the scorer rules out is HOT, for any employee count and any mix of the rest.
THEOREM ExcludedLeadsAreNeverHot == Spec => []ExcludedNeverHot
<1>1. Decided => ExcludedNeverHot
  <2> SUFFICES ASSUME Decided, done.of = "score" PROVE ExcludedNeverHot
    BY DEF ExcludedNeverHot
  <2>1. PICK l \in Leads : done = Scored(l)
    BY KindTells
  <2>2. done.lead = l /\ done.score = evaluate_lead_score(l)
    BY <2>1 DEF Scored
  <2> QED
    BY <2>2, ExcludedIsNotHot DEF ExcludedNeverHot
<1> QED
  BY <1>1, DecidedHolds, PTL

\* The listed reasons make up the score as long as at most one deduction is among them.
THEOREM ReasonsExplainTheScore == Spec => []ReasonsAddUp
<1>1. Decided => ReasonsAddUp
  <2> SUFFICES ASSUME Decided, done.of = "score" PROVE ReasonsAddUp
    BY DEF ReasonsAddUp
  <2>1. PICK l \in Leads : done = Scored(l)
    BY KindTells
  <2>2. done.lead = l /\ done.score = evaluate_lead_score(l)
    BY <2>1 DEF Scored
  <2> QED
    BY <2>2, ReasonsAre DEF ReasonsAddUp
<1> QED
  BY <1>1, DecidedHolds, PTL

\* What goes out unread is grounded under both readings of the policy, for any phrases, defaults,
\* claims and confidences.
THEOREM ReleasedDraftsAreSafe == Spec => []ReleasedDraftIsSafe
<1>1. Decided => ReleasedDraftIsSafe
  <2> SUFFICES ASSUME Decided, done.of = "draft", done.released PROVE ReleasedDraftIsSafe
    BY DEF ReleasedDraftIsSafe
  <2>1. PICK d \in Drafts, before \in Policies, after \in Policies, proven \in BOOLEAN :
          \E v \in verify_draft(d, before, after, proven) : done = Verified(d, before, after, proven, v)
    BY KindTells
  <2>2. PICK v \in verify_draft(d, before, after, proven) : done = Verified(d, before, after, proven, v)
    BY <2>1
  <2>3. /\ done.draft = d /\ done.before = before /\ done.after = after /\ done.proven = proven
        /\ Released(v)
    <3>1. done.draft = d /\ done.before = before /\ done.after = after /\ done.proven = proven
      BY <2>2 DEF Verified
    <3>2. done.released = Released(v)
      BY <2>2, Zenon DEF Verified
    <3> QED
      BY <3>1, <3>2
  <2>4. is_grounded(d, before, after, proven) /\ ~d.flagged /\ d.send /\ d.confidence >= 850
    BY <2>3, ReleasedIsSafe
  <2>5. /\ \A c \in d.claims : 2 * c.found >= c.tokens
        /\ d.says \cap Prohibited(before, after) = {}
        /\ d.research => proven
    BY <2>4 DEF is_grounded, Grounded
  <2>6. /\ before.listed => d.says \cap before.phrases = {}
        /\ ~before.listed => d.says \cap Defaults = {}
        /\ after.listed => d.says \cap after.phrases = {}
    <3> DEFINE first == IF before.listed THEN before.phrases ELSE Defaults
               second == IF after.listed THEN after.phrases ELSE {}
    <3>0. Prohibited(before, after) = first \cup second
      BY DEF Prohibited
    <3>1. d.says \cap (first \cup second) = {}
      <4> HIDE DEF first, second
      <4> QED
        BY <2>5, <3>0, Zenon
    <3>2. before.listed => first = before.phrases
      OBVIOUS
    <3>3. ~before.listed => first = Defaults
      OBVIOUS
    <3>4. after.listed => second = after.phrases
      OBVIOUS
    <3> HIDE DEF first, second
    <3>5. d.says \cap first = {} /\ d.says \cap second = {}
      BY <3>1
    <3>6. before.listed => d.says \cap before.phrases = {}
      BY <3>2, <3>5
    <3>7. ~before.listed => d.says \cap Defaults = {}
      BY <3>3, <3>5
    <3>8. after.listed => d.says \cap after.phrases = {}
      BY <3>4, <3>5
    <3> QED
      BY <3>6, <3>7, <3>8
  <2>7. ~done.draft.flagged /\ done.draft.send /\ done.draft.confidence >= 850
    BY <2>3, <2>4
  <2>8. /\ done.before.listed => done.draft.says \cap done.before.phrases = {}
        /\ ~done.before.listed => done.draft.says \cap Defaults = {}
        /\ done.after.listed => done.draft.says \cap done.after.phrases = {}
    BY <2>3, <2>6, Zenon
  <2>9. /\ \A c \in done.draft.claims : 2 * c.found >= c.tokens
        /\ done.draft.research => done.proven
    <3>1. \A c \in d.claims : 2 * c.found >= c.tokens
      BY <2>5
    <3>2. d.research => proven
      BY <2>5, Zenon
    <3>3. \A c \in done.draft.claims : 2 * c.found >= c.tokens
      BY <2>3, <3>1
    <3>4. done.draft.research => done.proven
      BY <2>3, <3>2, Zenon
    <3> QED
      BY <3>3, <3>4
  <2> QED
    BY <2>7, <2>8, <2>9 DEF ReleasedDraftIsSafe
<1> QED
  BY <1>1, DecidedHolds, PTL

\* The chunks of any text, cut with any limit and overlap, lose no word, split no paragraph and
\* share what they should.
THEOREM ChunksCoverTheText == Spec => []ChunksCoverText
<1>1. Decided => ChunksCoverText
  <2> SUFFICES ASSUME Decided, done.of = "chunks" PROVE ChunksCoverText
    BY DEF ChunksCoverText
  <2>1. PICK text \in Texts : done = CutUp(text)
    BY KindTells
  <2> DEFINE chunks == chunk_text(text)   words == WordsOf(text)
  <2>2. done.text = text /\ done.chunks = chunks
    BY <2>1 DEF CutUp
  <2>3. text \in Seq(Nat \ {0}) /\ DOMAIN text = 1 .. Len(text)
    BY InputAssumption, LenProperties
  <2>4. CASE text = <<>>
    <3>1. chunks = <<>> /\ DOMAIN chunks = {} /\ DOMAIN text = {} /\ 1 .. Len(chunks) - 1 = {}
      <4>1. chunks = <<>>
        BY <2>3, <2>4, ChunksCover
      <4> HIDE DEF chunks
      <4> QED
        BY <2>4, <4>1
    <3> HIDE DEF chunks, words
    <3> QED
      BY <2>2, <2>4, <3>1 DEF ChunksCoverText
  <2>5. CASE text # <<>>
    <3>1. Covers(text, words, Len(text), chunks)
      BY <2>3, <2>5, ChunksCover
    <3> HIDE DEF chunks
    <3>2. chunks # <<>> /\ DOMAIN chunks = 1 .. Len(chunks)
      BY <3>1, LenProperties DEF Covers
    <3>3. \A p \in DOMAIN text : \E i \in DOMAIN chunks :
            chunks[i].first <= words[p - 1] + 1 /\ chunks[i].last >= words[p]
      BY <2>3, <3>1, <3>2 DEF Covers
    <3>4. \A i \in DOMAIN chunks :
            \/ chunks[i].last - chunks[i].first < PER_CHUNK
            \/ \E p \in DOMAIN text : /\ chunks[i].last = words[p]
                                      /\ chunks[i].last - chunks[i].first < OVERLAP + text[p]
      BY <3>1, <3>2 DEF Covers, Small
    <3>5. /\ chunks[1].first = 1 /\ chunks[Len(chunks)].last = words[Len(text)]
          /\ \A i \in 1 .. Len(chunks) - 1 :
               /\ chunks[i + 1].last > chunks[i].last
               /\ chunks[i].last - chunks[i + 1].first + 1
                    = AtMost(OVERLAP, chunks[i].last - chunks[i].first + 1)
      BY <3>1 DEF Covers, Shares
    <3> QED
      BY <2>2, <2>5, <3>2, <3>3, <3>4, <3>5 DEF ChunksCoverText
  <2> QED
    BY <2>4, <2>5
<1> QED
  BY <1>1, DecidedHolds, PTL

\* No offered time collides with a meeting that was asked for, for any hours, days, lengths,
\* buffers, notices and calendars.
THEOREM OfferedTimesAreFree == Spec => []SlotsAreFree
<1>1. Decided => SlotsAreFree
  <2> SUFFICES ASSUME Decided, done.of = "slots" PROVE SlotsAreFree
    BY DEF SlotsAreFree
  <2>1. PICK s \in Searches : done = Offered(s)
    BY KindTells
  <2>2. done.search = s /\ done.slots = Found(s)
    BY <2>1 DEF Offered
  <2> QED
    BY <2>2, OfferedIsFree DEF SlotsAreFree
<1> QED
  BY <1>1, DecidedHolds, PTL

\* The offered times are the earliest there are.
THEOREM EarliestTimesAreOffered == Spec => []EarliestOffered
<1>1. Decided => EarliestOffered
  <2> SUFFICES ASSUME Decided, done.of = "slots" PROVE EarliestOffered
    BY DEF EarliestOffered
  <2>1. PICK s \in Searches : done = Offered(s)
    BY KindTells
  <2>2. done.search = s /\ done.slots = Found(s)
    BY <2>1 DEF Offered
  <2> QED
    BY <2>2, EarliestIsOffered DEF EarliestOffered
<1> QED
  BY <1>1, DecidedHolds, PTL
=============================================================================
