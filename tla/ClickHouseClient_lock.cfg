SPECIFICATION Spec
CONSTANTS
  cvd = cvd
  liq = liq
  oi = oi
  Writers <- MCWriters
  DirectWriters <- MCDirect
  MaxClients = 7
  MaxFaults = 2
INVARIANT InsertsKeepTheirClient
