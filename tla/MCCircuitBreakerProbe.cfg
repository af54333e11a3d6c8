CONSTANTS
  Callers = {email, campaign}
  NoCaller = NoCaller
  MaxFailures = 2
  OpenDuration = 1
SPECIFICATION Spec
INVARIANT NilMeansTheOperationRan
