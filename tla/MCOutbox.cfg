CONSTANTS
  Ids = {i1, i2, i3}
  Pods = {p1, p2}
  BatchSize = 2
  OutboxMaxRetries = 2
  MaxFaults = 2
  NoEvent = NoEvent
SPECIFICATION FairSpec
INVARIANTS
  HandedAtMostOnce
  GivesUpAfterAllRetries
  OnlyFaultsStrand
PROPERTIES
  ImplementsContract
  EveryEventSettles
CHECK_DEADLOCK FALSE
