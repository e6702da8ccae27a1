SPECIFICATION WorkersSpec
CONSTANTS
  j1 = j1
  w1 = w1
  w2 = w2
  Jobs = {j1}
  Workers = {w1, w2}
  NoWorker = NoWorker
  Budget <- MCBudget
  MaxLeases = 2
  MaxRevision = 1
  MaxReads = 1
  Results = {"transient"}
  MaxFaults = 1
CHECK_DEADLOCK FALSE
PROPERTIES
  LeaseEnds
  RetryWaitEnds
