SPECIFICATION FairSpec
CONSTANTS
  Clients = {c1, c2}
  Readings = {9960, 10000}
  TTL = 1
  MaxTime = 2
  Nobody = nobody
INVARIANTS
  TypeOK
  ServedFresh
PROPERTIES
  ImplementsOneBadge
  RefreshOncePerTTL
  EveryRequestEnds
