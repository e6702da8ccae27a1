SPECIFICATION Spec
CONSTANTS
  s1 = s1
  s2 = s2
  LastJob = 2
  Schedulers = {s1, s2}
  MaxConcurrent = 1
  DailyQuota = 2
  BatchLimit = 2
  MaxOthers = 1
  MaxFaults = 1
INVARIANTS
  TypeOK
  PromotionsArePaidFor
PROPERTY DueIsPromoted
