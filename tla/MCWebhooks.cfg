SPECIFICATION FairSpec
CONSTANTS
  Deliveries = {d1}
  Execs = {x1, x2}
  Concurrency = 2
  MaxAttempts = 2
  TimeoutMs = 1
  Slack = 2
  Margin = 1
  Skew = 0
  Delays = {0, 1}
  MaxGen = 3
  MaxFaults = 1
INVARIANTS
  OneRequestAtATime
  AttemptsAccounted
PROPERTIES
  DeliveriesSettle
CHECK_DEADLOCK FALSE
