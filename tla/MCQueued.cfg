SPECIFICATION QueuedSpec
CONSTANTS
  ScheduleIds <- MCSchedules
  Definitions <- MCCron
  RequestKeys = {"k"}
  Hosts = {h1, h2}
  Editors = {"e"}
  Period = 2
  LeaseMs = 1
  ScheduleLimit = 1
  DispatchLimit = 1
  Skew = 0
  Horizon = 3
  MaxEdits = 2
  MaxFaults = 1
  MaxAttempts = 2
  MaxCalls = 1
  MaxMediaFaults = 1
SYMMETRY HostSymmetry
INVARIANTS
  InstantOnce
  AcceptanceIsConfirmed
  MediaIsSound
PROPERTIES
  OccurrencesAreKept
CHECK_DEADLOCK FALSE
