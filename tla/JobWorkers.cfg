SPECIFICATION WorkersSafety
CONSTANTS
  j1 = j1
  w1 = w1
  w2 = w2
  Jobs = {j1}
  Workers = {w1, w2}
  NoWorker = NoWorker
  Budget <- MCBudget
  MaxLeases = 2
  MaxRevision = 4
  MaxReads = 1
  Results = {"complete", "defer", "fail", "transient"}
  MaxFaults = 1
SYMMETRY MCWorkers
CHECK_DEADLOCK FALSE
INVARIANTS
  WorkersTypeOK
  BeatRenewsOwnLease
  NoLeakedLease
PROPERTIES
  WorkersAreFenced
