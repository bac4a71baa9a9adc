CONSTANTS
  g1 = g1
  g2 = g2
  Engines = {g1, g2}
  Kinds = {"tracked", "untracked", "malformed", "corrupt"}
  BatchSize = 2
  MaxTrades = 2
  MaxTime = 2
  MaxFailures = 1
SPECIFICATION Spec
SYMMETRY EngineSymmetry
INVARIANTS
  TypeOK
  NothingLost
  PromotionsBounded
PROPERTIES
  NoPromotionOfTheDead
