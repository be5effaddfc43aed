SPECIFICATION DrainSpec
CONSTANTS
  JobIds <- MCOneJob
  Payloads = {"pa"}
  Keys = {}
  NoKey = "none"
  MaxAttempts = 1
  MaxRetries = 1
  LeaseMs = 1
  ExpireInMs = 2
  Skew = 0
  Horizon = 30
  RunDelays = {0}
  DelaySeconds = 1
  Backoff = FALSE
  MaxDelay = 2
  ShiftCap = 2
  ShiftLeft <- MCShiftLeft
  Lanes = {"l1", "l2"}
  Workers = {"w1"}
  WorkerOf <- OneWorker
  MaxJobs = 2
  StopWhenIdle = TRUE
  HasTimeout = TRUE
  MaxFaults = 2
PROPERTIES
  BatchEnds
