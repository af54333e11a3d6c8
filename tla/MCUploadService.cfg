CONSTANTS
  Sessions = {s1}
  Parts = {1}
  Requests = {r1, r2}
  Video = Video
  NoSession = NoSession
  MaxPuts = 2
  MaxFaults = 1
  JanitorBatch = 1
SPECIFICATION Spec
INVARIANTS
  LockIsHeldByOne
  
  ClaimsAreStored
SYMMETRY Symmetry
