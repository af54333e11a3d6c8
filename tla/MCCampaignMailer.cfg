CONSTANTS
  UserIds = {u1, u2, u3}
  Refused = {u3}
  Prefetch = 2
  CountCap = 2
  MaxFaults = 1
  NoUser = NoUser
SPECIFICATION MailerFairSpec
INVARIANTS
  OneCopy
  MailedAndCountedOnce
PROPERTY OthersAreMailed
CHECK_DEADLOCK FALSE
