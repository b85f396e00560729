SPECIFICATION FairSpec

CONSTANTS
  btc = btc
  eth = eth
  HighFrequencyTopics <- MCHotTopics
  HotPartitions = 3
  DefaultPartitions = 1
  RoutingSymbols <- MCRoutingSymbols
  ActiveLanes <- MCActiveLanes
  Symbols = {btc, eth}
  Arrivals <- MCArrivals
  Hashes = {0, 1}
  WindowDuration = 1
  WatermarkDelay = 1
  MaxEventLag = 2
  MaxFuture = 2
  Observe = FALSE
  MaxOffsets <- MCMaxOffsets
  LagSteps <- MCLagSteps
  MaxTime = 1
  MaxStamp = 3
  MaxTrades = 3
  MaxFaults = 1
  MaxCrashes = 1

INVARIANTS
  TypeOK
  OnePartitionOneSymbol
  TotalsAreExact

PROPERTIES
  OnlyOvertakenTradesAreLate
  CatchesUp

CHECK_DEADLOCK FALSE
