CONSTANTS
  g1 = g1
  Engines = {g1}
  Kinds = {"tracked", "malformed", "corrupt"}
  BatchSize = 1
  MaxTrades = 2
  MaxTime = 3
  MaxFailures = 2
SPECIFICATION FairSpec
PROPERTIES
  GoneForGood
  ImplementsLifecycle
  EventuallyLeaves
