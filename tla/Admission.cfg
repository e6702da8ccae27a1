SPECIFICATION Spec
CONSTANTS
  Requests = {1, 2, 3}
  Asks <- MCAsks
  MaxTroubled = 1
INVARIANTS
  TypeOK
  OneKeyOneJob
  DuplicatesOverlap
  RefusalsAreExplained
CHECK_DEADLOCK FALSE
