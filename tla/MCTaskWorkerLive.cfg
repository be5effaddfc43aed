SPECIFICATION FairSpec
CONSTANTS
  JobIds <- MCOneJob
  Payloads = {"pa"}
  Keys = {}
  NoKey = "none"
  MaxAttempts = 1
  MaxRetries = 0
  LeaseMs = 2
  ExpireInMs = 3
  Skew = 1
  Horizon = 9
  RunDelays = {0}
  DelaySeconds = 1
  Backoff = FALSE
  MaxDelay = 2
  ShiftCap = 2
  ShiftLeft <- MCShiftLeft
  Lanes = {"l1", "l2"}
  Workers = {"w1", "w2"}
  WorkerOf <- TwoWorkers
  MaxJobs = 0
  StopWhenIdle = FALSE
  HasTimeout = TRUE
  MaxFaults = 1
PROPERTIES
  JobsFinish
