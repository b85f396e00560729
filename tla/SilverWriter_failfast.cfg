SPECIFICATION FairSpec

CONSTANTS
  Queries = {cvd, oi}
  DirectQueries = {oi}
  MaxBatch = 3
  FailFastEnabled = TRUE
  FailFastConsecutive = 2
  RaiseModes = {FALSE}
  AuditStdout = TRUE
  CleanupEnabled = TRUE
  MaxFiles = 2
  UnlinkMayFail = FALSE
  MaxFaults = 1
  MaxCrashes = 1
  cvd = cvd
  liq = liq
  oi = oi
  EmptyBatches <- MCEmpty
  Refusals <- MCRefusals
  Exceptions <- MCTimeout
  PoisonException <- MCPoisonException
  FailFastTypes <- MCAllTypes

INVARIANTS
  FailFastBoundsFailedCommits

PROPERTIES
  EveryBatchCommits

CHECK_DEADLOCK FALSE
