SPECIFICATION Spec
CONSTANTS
  Deliveries = {d1, d2}
  Execs = {x1, x2}
  Concurrency = 1
  MaxAttempts = 1
  TimeoutMs = 1
  Slack = 2
  Margin = 1
  Skew = 1
  Delays = {0}
  MaxGen = 1
  MaxFaults = 0
SYMMETRY MCSymmetry
INVARIANTS
  WithinConcurrency
CHECK_DEADLOCK FALSE
