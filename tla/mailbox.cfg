SPECIFICATION SendSpec
CONSTANTS
  a1 = a1
  r1 = r1
  task = task
  request = request
  Accounts = {a1}
  Senders = {task, request}
  PickEarly = {task}
  Recipients = {r1}
  Limits = {1, 2}
  MAX_ATTEMPTS = 3
  SendFaults = {"provider", "unauthorized", "database", "crash", "expiry"}
INVARIANTS CounterIsFair LimitHeldAlone
PROPERTIES RevokedUntilPatched KeepsOutbox
CHECK_DEADLOCK FALSE
