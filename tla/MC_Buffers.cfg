SPECIFICATION FairSpec
CONSTANTS
  Workers = {w1, w2}
  Printer = Printer
  NumPools = 2
  a = a
  d1 = d1
  d2 = d2
  d3 = d3
  d4 = d4
  PoolBuffers <- McPoolBuffers
  InboxRoom = 1
  LogRoom = 3
  None = None
INVARIANTS TypeOK OnePlace SemaphoreBacked NeverOvercounted LogNeedsNoLock
PROPERTIES CallsReturn BufferExchange
