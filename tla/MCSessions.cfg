\* A token lives two ticks, its access token one.  The system stops when all
\* tokens are used up and expired.
SPECIFICATION Spec
CONSTANTS
  Users = {u1}
  Requests = {r1, r2}
  Tokens = {t1, t2, t3, t4}
  NoToken = NoToken
  RefreshLife = 2
  AccessLife = 1
  MaxFaults = 2
SYMMETRY Symmetry
CHECK_DEADLOCK FALSE
INVARIANTS
  OneLiveToken
  
  HeldTokensWork
