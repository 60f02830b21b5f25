SPECIFICATION ReplySpec
CONSTANTS
  Keys = {"anthropic"}
  LiveIntents <- LiveIntentsDef
  Mails <- MailsDef
  Titles <- TitlesDef
  FirstEmails <- FirstEmailsDef
  Deliveries = {m1, m2}
  NoDelivery = none
  Outcomes <- OutcomesDef
  MaxRequests = 1
  Faults = {"broker", "crm", "crash", "mailbox", "provider"}
SYMMETRY Symmetry
INVARIANTS TornOnlyByOverlap
PROPERTIES OnlySureAnswers UnansweredIsShown
CHECK_DEADLOCK FALSE
