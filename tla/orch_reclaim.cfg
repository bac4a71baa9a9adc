CONSTANTS
  w1 = w1
  w2 = w2
  Workers = {w1, w2}
  Kinds = {"valid"}
  MaxRetries = 3
  BatchSize = 2
  ReclaimWindow = 1
  ReclaimEvery = 2
  StreamMaxLen = 2
  MaxMsgs = 1
  MaxFaults = 1
SPECIFICATION FairSpec
PROPERTIES
  ReclaimedIsReprocessed
