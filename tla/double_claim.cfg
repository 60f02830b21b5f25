SPECIFICATION Spec
CONSTANTS
  c1 = c1
  c2 = c2
  l1 = l1
  l2 = l2
  e1 = e1
  e2 = e2
  t1 = t1
  t2 = t2
  w1 = w1
  w2 = w2
  d1 = d1
  d2 = d2
  m1 = m1
  m2 = m2
  NoEnrollment = NoEnrollment
  NoDelivery = NoDelivery
  Campaigns = {c1}
  Leads = {l1, l2}
  Enrollments = {e1, e2}
  campaignOf <- PairCampaign
  leadOf <- PairLead
  stepCount <- OneStep
  MaxSteps = 2
  Evaluators = {w1, w2}
  BATCH_LIMIT = 2
  SendTasks = {t1, t2}
  MAX_RETRIES = 1
  PromptCampaigns = {}
  Deliveries = {}
  Messages = {}
  messageOf <- NoMessageOf
  senderOf <- FromFirstLead
  OptOutMessages = {}
  Requests = {"enroll", "launch"}
  MissingNames = {}
  Faults = {}
SYMMETRY Workers
INVARIANTS AtMostOneLiveTask
CHECK_DEADLOCK FALSE
