SPECIFICATION FairSpec
CONSTANTS
  s1 = s1
  s2 = s2
  v1 = v1
  v2 = v2
  Servers = {s1, s2}
  Videos = {v1}
  Nobody = Nobody
  NoVideo = NoVideo
  MaxVideosPerRun = 1
  MaxOutboxRetries = 2
  LastDay = 1
  MaxChecks = 2
  MaxFaults = 1
CHECK_DEADLOCK FALSE
INVARIANTS
  TypeOK
  OneExtraction
  ChargedForFailures
PROPERTY EntrySettles
