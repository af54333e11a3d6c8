CONSTANTS
  Callers = {email, campaign}
  NoCaller = NoCaller
  MaxFailures = 3
  OpenDuration = 2
SPECIFICATION FairSpec
INVARIANTS
  TypeOK
  ClosedIffShortStreak
PROPERTIES
  ImplementsContract
  Recovers
  
