SPECIFICATION FairSpec

CONSTANTS
  Topic <- MCTopic
  NumRows = 2
  Modes <- MCModes
  Late = 1
  Future = 1
  MaxInvalid = 50
  DayLength = 2
  MaxAge = 1
  MaxFiles = 1
  CleanupEnabled = TRUE
  BootTime = 1
  MaxMissed = 1
  MaxClock = 3
  MaxFaults = 2

INVARIANTS
  DropsAreExplained
  NoRejectionIsSilent
  EveryBatchReported
  StrictModeLimitsInvalid

PROPERTIES
  RetentionKeepsRecentEvidence
  CleanupBoundsFallback
  EveryRowIsGated

CHECK_DEADLOCK FALSE
