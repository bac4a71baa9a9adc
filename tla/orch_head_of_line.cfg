CONSTANTS
  w1 = w1
  Workers = {w1}
  Kinds = {"undecodable", "valid"}
  MaxRetries = 3
  BatchSize = 2
  ReclaimWindow = 2
  ReclaimEvery = 2
  StreamMaxLen = 2
  MaxMsgs = 2
  MaxFaults = 1
SPECIFICATION FairSpec
PROPERTIES
  FailedIsDeadLettered
