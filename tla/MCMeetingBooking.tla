--------------------------- MODULE MCMeetingBooking ---------------------------
(***************************************************************************)
(* Small instances of MeetingBooking for TLC: three requests, two of them   *)
(* in one process.                                                          *)
(***************************************************************************)
EXTENDS MeetingBooking, TLC

CONSTANTS p1, p2, r1, r2, r3, slot, later, cal

Process == r1 :> p1 @@ r2 :> p1 @@ r3 :> p2
OneProcess == [r \in Clients |-> p1]
OneCalendar == [r \in Clients |-> cal]

\* All want the slot at 1, one of them for longer.
SameSlotKey == [r \in Clients |-> slot]
SameStart   == [r \in Clients |-> 1]
Durations   == r1 :> 2 @@ r2 :> 3 @@ r3 :> 2

\* The third one starts while the first two are still meeting: a key of its own.
TwoKeys    == r1 :> slot @@ r2 :> slot @@ r3 :> later
TwoStarts  == r1 :> 1 @@ r2 :> 1 @@ r3 :> 2
TwoEnds    == r1 :> 3 @@ r2 :> 3 @@ r3 :> 4

=============================================================================
