SPECIFICATION Spec

CONSTANTS
  Messages = {m1, m2}
  Threads = {loop, pool1}
  Main = loop
  IO = io
  Backends = {"kafka-python"}
  FlushMayTimeOut = FALSE
  MaxFaults = 0
  MaxFlushes = 0
  m1 = m1
  m2 = m2
  m3 = m3
  loop = loop
  pool1 = pool1
  pool2 = pool2
  io = io

INVARIANTS
  FailedRecordsAreKept

CHECK_DEADLOCK FALSE
