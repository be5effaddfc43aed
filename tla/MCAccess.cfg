SPECIFICATION AccessSpec
CONSTANTS
  c1 = c1
  c2 = c2
  p1 = p1
  p2 = p2
  AuthProcs = {p1, p2}
  AuthCalls = {c1, c2}
  Lifetime <- MCLifetime
  Behind <- MCBehind
  AuthHorizon = 5
  MaxDigests = 2
  MaxSessionRevision = 2
  Users = {u1, u2}
  GrantIds = {g1, g2}
  OAuthCalls = {c1, c2}
  Scopes = 2
  MaxTokens = 3
  MaxGrantRevision = 4
  MaxUsedRefresh = 2
  MaxOAuthFaults = 1
  KeyCalls = {c1, c2}
  KeyLife = 4
  Overlaps = {0, 1, 2}
  KeySkew = 1
  KeyHorizon = 5
  MaxSecrets = 3
  FileCalls = {c1, c2}
  UploadLife = 2
  FileHorizon = 5
  MaxPuts = 2
  MaxFileRevision = 4
  MaxFileFaults = 2
  LocalCalls = {c1, c2}
  Dirs = {1, 2, 3}
SYMMETRY CallSymmetry
INVARIANTS
  StorageIsSound
PROPERTIES
  CredentialsEndForGood
CHECK_DEADLOCK FALSE
