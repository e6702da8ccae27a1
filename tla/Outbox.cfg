SPECIFICATION FairSpec
CONSTANTS
  urgent = urgent
  ordinary = ordinary
  w1 = w1
  w2 = w2
  Events = {urgent, ordinary}
  Workers = {w1, w2}
  Groups <- MCGroups
  Priority <- MCPriority
  MaxAttempts = 2
  MaxFaults = 1
  MaxDeferrals = 1
CHECK_DEADLOCK FALSE
INVARIANTS
  TypeOK
  VerdictIsTheLastRuns
  FailuresWithinBudget
  RepeatsNeedLapses
PROPERTIES
  AtLeastOnce
  DebtsArePaid
