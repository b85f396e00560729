SPECIFICATION Spec

CONSTANTS
  Topic <- MCNullTopic
  NumRows = 1
  Modes <- MCModes
  Late = 1
  Future = 1
  MaxInvalid = 50
  DayLength = 2
  MaxAge = 2
  MaxFiles = 1
  CleanupEnabled = TRUE
  BootTime = 0
  MaxMissed = 0
  MaxClock = 2
  MaxFaults = 2

INVARIANTS
  DroppedRowsAreQuarantined

CHECK_DEADLOCK FALSE
