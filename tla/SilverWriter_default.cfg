SPECIFICATION Spec

CONSTANTS
  Queries = {cvd, liq}
  DirectQueries = {}
  MaxBatch = 2
  FailFastEnabled = FALSE
  FailFastConsecutive = 2
  RaiseModes = {TRUE, FALSE}
  AuditStdout = TRUE
  CleanupEnabled = TRUE
  MaxFiles = 2
  UnlinkMayFail = TRUE
  MaxFaults = 2
  MaxCrashes = 1
  cvd = cvd
  liq = liq
  oi = oi
  EmptyBatches <- MCEmpty
  Refusals <- MCNoRefusal
  Exceptions <- MCExceptions
  PoisonException <- MCPoisonException
  FailFastTypes <- MCAllTypes

INVARIANTS
  TypeOK
  NoSilentLoss
  AuditTellsTheOutcome
  StrictModeCommitsOnlyStored

PROPERTIES
  RegressesOnlyByLateInsert
  ImplementsBatchDelivery

CHECK_DEADLOCK FALSE
