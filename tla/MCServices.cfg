SPECIFICATION ServicesSpec
CONSTANTS
  c1 = c1
  c2 = c2
  h1 = h1
  h2 = h2
  LimitCalls = {c1, c2}
  LimitCapacity = 1
  LimitPeriod = 2
  LimitTtl = 2
  LimitTimes = {1, 2, 3, 4, 5}
  Families = {h1, h2}
  FlightsOf <- MCFlights
  Mutations = {m}
  MaxSource = 2
  MaxGeneration = 2
  People = {a, b}
  Invitations = {i}
  OrgCalls = {c1, c2}
  Founder = a
  InvitationLifetime = 1
  MaxMembers = 2
  OrgHorizon = 1
  MaxVersion = 5
  Requests = {q1, q2}
  SetupCalls = {c1, c2, c3}
  MaxSetupFaults = 2
  Handles = {u}
  MaxBufferedEvents = 2
  MaxPublished = 2
  MaxTopicGenerations = 2
  PgJobs = {j1, j2}
  PgKeys = {k}
  PgInputs = {i1, i2}
  PgCalls = {c1, c2}
  PgAttempts = 2
  MaxPgRetries = 1
SYMMETRY CallSymmetry
INVARIANTS
  LimitsHold
  CacheIsFresh
  OneFirstOwner
  StreamIsHonest
  PostgresIsSound
PROPERTIES
  OrganizationIsSound
CHECK_DEADLOCK FALSE
