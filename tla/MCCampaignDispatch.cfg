CONSTANTS
  UserIds = {2, 4, 7}
  Pods = {p1, p2}
  BatchSize = 2
  QueueLimit = 2
  MaxFaults = 1
SPECIFICATION FairSpec
INVARIANTS
  PublishedOnce
  CompletedSkipsNobody
  CheckpointIsSafe
PROPERTY CampaignSettles
CHECK_DEADLOCK FALSE
