SPECIFICATION Spec

CONSTANTS
  Quotes <- MCQuotes
  RollupModes = {TRUE, FALSE}
  ObserveModes = {TRUE, FALSE}
  EnabledJobs = {{"price"}, {"oi"}}
  StaleAfter = 1
  MaxEventLag = 1
  MaxFuture = 1
  PerWindow = 2
  MaxTime = 3
  MaxQuotes = 2
  MaxSnapshots = 3
  MaxFaults = 1

INVARIANTS
  BookHoldsRealQuotes
  BasisIsContemporary
  BaseWasStored

CHECK_DEADLOCK FALSE
