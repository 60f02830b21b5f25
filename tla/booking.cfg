SPECIFICATION FairBookingSpec
CONSTANTS
  p1 = p1
  p2 = p2
  r1 = r1
  r2 = r2
  r3 = r3
  slot = slot
  later = later
  cal = cal
  NoClient = NoClient
  Processes = {p1, p2}
  Clients = {r1, r2, r3}
  processOf <- Process
  Keys = {slot}
  keyOf <- SameSlotKey
  calendarOf <- OneCalendar
  startOf <- SameStart
  endOf <- Durations
  LockFaults = {"outage", "late_set", "expiry"}
  BookingFaults = {"provider", "lost_ack", "database", "crash"}
INVARIANTS NoDoubleBooking InvitesClashOnlyAfterFailure
PROPERTIES LockIsMutex  ReleaseKeepsOthers
CHECK_DEADLOCK FALSE
