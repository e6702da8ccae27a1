SPECIFICATION Spec
CONSTANTS
  w1 = w1
  w2 = w2
  Workers = {w1, w2}
  MaxAttempts = 2
  MaxTroubles = 1
CHECK_DEADLOCK FALSE
PROPERTY ChainIsNotReset
