CONSTANTS
  m1 = m1
  m2 = m2
  Matchers = {m1, m2}
  Kinds = {"sound", "priceless"}
  Ttl = 1
  Grace = 1
  MaxOrders = 2
  LastOrder = 0
  MaxTime = 3
  MaxFailures = 1
SPECIFICATION Spec
SYMMETRY MatcherSymmetry
INVARIANTS
  TypeOK
  FilledOncePerMatcher
  NoLiveOrderDropped
  IndexedHasDeadline
PROPERTIES
  NoFillOfTheDead
