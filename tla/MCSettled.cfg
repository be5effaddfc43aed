SPECIFICATION SettledSpec
CONSTANTS
  ScheduleIds <- MCSchedules
  Definitions <- MCBoth
  RequestKeys = {"k"}
  Hosts = {h1, h2}
  Editors = {"e"}
  Period = 2
  LeaseMs = 1
  ScheduleLimit = 1
  DispatchLimit = 1
  Skew = 0
  Horizon = 2
  MaxEdits = 1
  MaxFaults = 1
  pay = pay
  Refunds = {k1}
  Amount = 1
  MaxRefunds = 2
  Runs = {r1, r2}
  NoRun = none
  ReplayWindow = 1
  Retention = 2
  Latency = 1
  Reported = {k1}
PROPERTIES
  OccurrencesAreDispatched
  DueIsPlanned
  Reconciled
CHECK_DEADLOCK FALSE
