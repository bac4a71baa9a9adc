CONSTANTS
  m1 = m1
  Matchers = {m1}
  Kinds = {"sound", "priceless"}
  Ttl = 1
  Grace = 1
  MaxOrders = 2
  LastOrder = 1
  MaxTime = 3
  MaxFailures = 1
SPECIFICATION FairSpec
PROPERTIES
  ImplementsLifecycle
  EventuallyUnindexed
