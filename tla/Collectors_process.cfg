SPECIFICATION FairSpec

CONSTANTS
  depth = depth
  ls = ls
  Sockets = {depth}
  Pollers = {ls}
  NumEndpoints <- MCEndpoints
  BaseDelay = 3
  MaxDelay = 12
  IdleLimit = 2
  Interval <- MCInterval
  RestBase = 1
  RestMax = 4
  Cooldown = 9
  Jitter = 50
  RetryAfters <- MCRetryAfters
  FloatExponent = 1

INVARIANTS
  TypeOK
  SilentStreamsBackOff
  PollersHoldBack
  StopsOnlyForAReason
  OneMessageAfterShutdown

PROPERTIES
  ShutdownCompletes
  SilentLinkIsReplaced
  EveryEndpointIsAsked

CHECK_DEADLOCK FALSE
