CONSTANTS
  Ids = {i1}
  MaxRetries = 1
  MaxFaults = 1
  Email = email
  OtherCallers = {campaign}
  NoCaller = NoCaller
  NoTask = NoTask
  MaxFailures = 2
  OpenDuration = 1
  NoHook = NoHook
  Admins = {a1}
  MaxReplays = 1
  NoHeld = NoHeld
SPECIFICATION FairSpec
INVARIANTS
  NoSilentLoss
  AttemptsBounded
  StatusIsEarned
  OneOutcome
  ReplayedWasPublished
PROPERTY ComesToRest
