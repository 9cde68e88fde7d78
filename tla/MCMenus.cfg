SPECIFICATION MCSpec
CONSTANTS
  MaxKeys = 2
  a1 = a1
  a2 = a2
  a3 = a3
  Addresses <- MCAddresses
  First = a1
  MaxMoves = 3
  MaxSessions = 2
  MaxPairs = 3
  MaxRuns = 2
  Nothing = Nothing
  w1 = w1
  w2 = w2
  plain = plain
  auth = auth
  t1 = t1
  t2 = t2
  t3 = t3
  p1 = p1
  k1 = k1
  k2 = k2
  h1 = h1
  Services <- MCServices
  Values <- MCValues
  AuthValues <- MCAuth
  Forced = Forced
  Partial = Partial
  NotHeld = NotHeld
  MaxChanges = 2
  Targets <- MCTargets
  Programs <- MCPrograms
  MaxRecent = 2
  MaxUses = 2
  LegacyRemovable = TRUE
  Providers <- MCProviders
  Hosts <- MCHosts
INVARIANTS
  MenusTypeOK
  KeyKeptUntilRevoked BoundKeysKept CleanupSparesBound
  RetryHandleKept ManagedLoginWorks PanelBeforeRevocation
  CompleteIsWhole AbortableIsUntouched CompleteHasKey
  FormLogsIn
  OriginalsRecoverable SnapshotRestorable
  DeletedStaysAway
  SecretsListed
PROPERTIES
  EndpointFollowsNode SnapshotSpentOnRestore
CHECK_DEADLOCK FALSE
