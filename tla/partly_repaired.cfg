SPECIFICATION Spec
CONSTANTS
  c1 = c1
  c2 = c2
  l1 = l1
  l2 = l2
  e1 = e1
  e2 = e2
  t1 = t1
  t2 = t2
  w1 = w1
  w2 = w2
  d1 = d1
  d2 = d2
  m1 = m1
  m2 = m2
  NoEnrollment = NoEnrollment
  NoDelivery = NoDelivery
  Campaigns = {c1, c2}
  Leads = {l1}
  Enrollments = {e1, e2}
  campaignOf <- TwinCampaign
  leadOf <- TwinLead
  stepCount <- TwoSteps
  MaxSteps = 2
  Evaluators = {w1}
  BATCH_LIMIT = 2
  SendTasks = {t1, t2}
  MAX_RETRIES = 2
  PromptCampaigns = {c1}
  Deliveries = {}
  Messages = {}
  messageOf <- NoMessageOf
  senderOf <- FromFirstLead
  OptOutMessages = {}
  Requests = {"enroll", "launch", "patch"}
  MissingNames = {"title", "custom_fields_json"}
  Faults = {"crash", "error", "lost_ack"}
INVARIANTS TwiceOnlyUnmarked
CHECK_DEADLOCK FALSE
