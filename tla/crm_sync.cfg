CONSTANTS
  Crms = {"hubspot", "salesforce", "zoho"}
  a = a
  s1 = s1
  s2 = s2
  Emails = {a}
  NoEmail = NoEmail
  Total = 3
  emailOf <- emailOfContact
  Syncs = {s1, s2}
  Changing = {1}
  PAGE = 2
  MAX_CONTACTS = 2
  SyncFaults = {"token", "provider", "contact", "crash", "broker"}
SPECIFICATION Spec
SYMMETRY SyncSymmetry
INVARIANTS NoContactPassedOver SyncingIsTrue AppliedOptOutHolds
CHECK_DEADLOCK FALSE
