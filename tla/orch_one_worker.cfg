CONSTANTS
  w1 = w1
  Workers = {w1}
  Kinds = {"valid", "unprocessable"}
  MaxRetries = 3
  BatchSize = 2
  ReclaimWindow = 1
  ReclaimEvery = 2
  StreamMaxLen = 1
  MaxMsgs = 2
  MaxFaults = 2
SPECIFICATION FairSpec
INVARIANTS
  OneWorkerOneOutcome
PROPERTIES
  EventuallySettled
