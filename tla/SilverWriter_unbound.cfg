SPECIFICATION Spec

CONSTANTS
  Queries = {cvd}
  DirectQueries = {}
  MaxBatch = 2
  FailFastEnabled = FALSE
  FailFastConsecutive = 2
  RaiseModes = {FALSE}
  AuditStdout = TRUE
  CleanupEnabled = TRUE
  MaxFiles = 2
  UnlinkMayFail = FALSE
  MaxFaults = 2
  MaxCrashes = 0
  cvd = cvd
  liq = liq
  oi = oi
  EmptyBatches <- MCNoPairs
  Refusals <- MCNoRefusal
  Exceptions <- MCTimeout
  PoisonException <- MCPoisonException
  FailFastTypes <- MCAllTypes

INVARIANT
  DlqPersistedIsBool

CHECK_DEADLOCK FALSE
