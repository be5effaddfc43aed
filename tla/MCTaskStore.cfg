SPECIFICATION StoreSpec
CONSTANTS
  JobIds <- MCJobIds
  Payloads = {pa, pb}
  Keys = {k}
  NoKey = none
  MaxAttempts = 2
  MaxRetries = 1
  LeaseMs = 2
  ExpireInMs = 3
  Skew = 1
  Horizon = 4
  RunDelays = {0}
  DelaySeconds = 0
  Backoff = TRUE
  MaxDelay = 2
  ShiftCap = 2
  ShiftLeft <- MCShiftLeft
INVARIANTS
  LeaseDiscipline
  AttemptsEndOnce
  OutcomeIsHonest
  CancelWins
  DedupStable
PROPERTIES
  ImplementsLifecycle
