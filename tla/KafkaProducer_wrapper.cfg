SPECIFICATION FairSpec

CONSTANTS
  Messages = {m1, m2}
  Threads = {loop, pool1}
  Main = loop
  IO = io
  Backends = {"kafka-python", "confluent"}
  FlushMayTimeOut = TRUE
  MaxFaults = 2
  MaxFlushes = 1
  m1 = m1
  m2 = m2
  m3 = m3
  loop = loop
  pool1 = pool1
  pool2 = pool2
  io = io

INVARIANTS
  TypeOK
  Accounted
  ExitLosesNothing
  NoDlqLoop

PROPERTIES
  EventuallySettled

CHECK_DEADLOCK FALSE
