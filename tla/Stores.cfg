SPECIFICATION Spec
CONSTANTS
  h1 = h1
  h2 = h2
  m1 = m1
  m2 = m2
  m3 = m3
  r1 = r1
  r2 = r2
  Users = {u1, u2}
  Entries = {1, 2, 3}
  Files = {1, 2, 3}
  MaxSockets = 2
  Targets <- MCTargets
  Filters <- MCFilters
  MaxResults = 2
  Writers = {u1, u2}
  Nodes = {n1}
  Health = {TRUE}
  Limit = 1
  MaxTime = 2
  Calls = {u1, u2}
  Titles = {offline}
  Webhooks = {1, 2, 3}
  Enabled = {1, 3}
  Cooldown = 2
  MaxAlertTime = 3
  Adders = {u1, u2}
  Readers = {u1}
  Size = 2
  MaxAdds = 5
  MetricNodes = {m1, m2, m3}
  Reporters = {r1, r2}
  MaxNodes = 2
  Free = free
SYMMETRY Symmetry
INVARIANTS
  PoolSocketExclusive PoolSocketsAccounted
  SweepAnswerConsistent SweepStoreWithinProcessor
  MemorySummaryAgrees
  DatabaseHistoryShowsStatus
  OneRequestForEachCooldown AlertTriesAllWebhooks
  MetricsReadLatest MetricsCountAccurate MetricsNoGhostEntries
PROPERTIES
  MemoryImplementsStore SqliteImplementsStore DatabaseImplementsTables
CHECK_DEADLOCK FALSE
