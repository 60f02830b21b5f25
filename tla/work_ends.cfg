SPECIFICATION FairSpec
CONSTANTS
  c1 = c1
  c2 = c2
  l1 = l1
  l2 = l2
  e1 = e1
  e2 = e2
  t1 = t1
  t2 = t2
  w1 = w1
  w2 = w2
  d1 = d1
  d2 = d2
  m1 = m1
  m2 = m2
  NoEnrollment = NoEnrollment
  NoDelivery = NoDelivery
  Campaigns = {c1}
  Leads = {l1}
  Enrollments = {e1}
  campaignOf <- SoloCampaign
  leadOf <- SoloLead
  stepCount <- TwoSteps
  MaxSteps = 2
  Evaluators = {w1, w2}
  BATCH_LIMIT = 2
  SendTasks = {t1}
  MAX_RETRIES = 1
  PromptCampaigns = {}
  Deliveries = {d1, d2}
  Messages = {m1, m2}
  messageOf <- TwoMessages
  senderOf <- FromFirstLead
  OptOutMessages = {m1}
  Requests = {"enroll", "launch", "pause", "resume"}
  MissingNames = {}
  Faults = {"provider", "broker", "late_error"}
PROPERTIES EveryTaskEnds DueIsClaimed OptOutTakesEffect
CHECK_DEADLOCK FALSE
