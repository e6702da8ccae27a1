SPECIFICATION Spec
CONSTANTS
  j1 = j1
  j2 = j2
  w1 = w1
  w2 = w2
  Jobs = {j1, j2}
  Workers = {w1, w2}
  NoWorker = NoWorker
  Budget <- MCBudget
  MaxLeases = 2
  MaxRevision = 7
  MaxReads = 2
CHECK_DEADLOCK FALSE
PROPERTY FinalRetryRuns
