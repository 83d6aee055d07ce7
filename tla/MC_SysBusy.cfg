SPECIFICATION FairSpec
CONSTANTS
  Workers = {w1, w2}
  Lockers = {l1, l2}
  MaxCounter = 3
  MaxTries = 1
  Nobody = Nobody
INVARIANTS CounterIsWorkers HeldMeansIdle
PROPERTY WaitReturns
