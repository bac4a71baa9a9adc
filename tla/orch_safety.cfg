CONSTANTS
  w1 = w1
  w2 = w2
  Workers = {w1, w2}
  Kinds = {"valid", "undecodable", "unprocessable"}
  MaxRetries = 3
  BatchSize = 2
  ReclaimWindow = 1
  ReclaimEvery = 2
  StreamMaxLen = 1
  MaxMsgs = 2
  MaxFaults = 2
SPECIFICATION Spec
SYMMETRY WorkerSymmetry
INVARIANTS
  TypeOK
  SingleDecision
  DeadOnlyAfterRetries
  DuplicatesBounded
PROPERTIES
  ImplementsSignalLifecycle
