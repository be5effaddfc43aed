SPECIFICATION ProgressSpec
CONSTANTS
  d1 = d1
  d2 = d2
  p1 = p1
  p2 = p2
  PluginCount = 2
  MaxCleanups = 2
  MaxChanges = 3
  Notes = {n1}
  Optional = {n1}
  Senders = {s1, s2}
  NoteLeaseMs = 1
  NoteMargin = 1
  NoteWindow = 4
  NoteLatency = 1
  NoteSkew = 0
  TaskAttempts = 2
  MaxNoteFaults = 1
  EventProcs = {p1, p2}
  DispatchersOf <- MCDispatchers
  EventIds = {e1}
  Subs = {sub}
  EventLease = 1
  RetryDelay = 1
  MaxEventFaults = 1
INVARIANTS
  CleanupIsSound
  OneRuntime
  NotesAreHonest
  EventsAreSound
PROPERTIES
  ProcessesMoveOn
  MessagesSettle
CHECK_DEADLOCK FALSE
