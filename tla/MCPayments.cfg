SPECIFICATION Spec
CONSTANTS
  Pay = pay
  Refunds = {k1, k2}
  Amount = 1
  RefundAmount <- MCWhole
  MaxRefunds = 2
  Runs = {r1, r2}
  NoRun = none
  LeaseMs = 1
  ReplayWindow = 1
  Retention = 2
  Latency = 1
  Skew = 0
  Reported = {pay}
  Horizon = 3
  MaxFaults = 1
SYMMETRY MCSymmetry
INVARIANTS
  MovedOnce
  RefundsCovered
  TerminalIsTrue
CHECK_DEADLOCK FALSE
