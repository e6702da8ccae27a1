SPECIFICATION Spec
CONSTANTS
  j1 = j1
  j2 = j2
  w1 = w1
  w2 = w2
  Jobs = {j1, j2}
  Workers = {w1, w2}
  NoJob = NoJob
  Budget = 2
  Base = 1
  MaxBackoff = 4
  Threshold = 1
  MaxFaults = 1
INVARIANTS
  TypeOK
  NoOtherLostWakeup
PROPERTIES
  EveryJobEnds
