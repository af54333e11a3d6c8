\* Two requests at a time, one fault: Redis, PostgreSQL or a restart of Redis.
SPECIFICATION Spec
CONSTANTS
  Requests = {r1, r2}
  Keys = {"ip", "send"}
  Limit <- MCLimit
  Window = 2
  TTL = 2
  MaxVersion = 2
  Ids = {1, 2, 3}
  MaxTime = 1
  DefaultPage = 1
  MaxPage = 2
  MaxFaults = 1
SYMMETRY Symmetry
INVARIANTS
  
  CacheFollowsRows
PROPERTIES
  RefusedOnlyWhenSpent
  WalksAreComplete
