SPECIFICATION FairSpec
CONSTANTS
  cvd = cvd
  liq = liq
  oi = oi
  Writers <- MCWriters
  DirectWriters <- MCDirect
  MaxClients = 10
  MaxFaults = 3
INVARIANTS TypeOK CommonWritersAreSafe OnlyCachedIsOpen
PROPERTY FailedClientIsReplaced
