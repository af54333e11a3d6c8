\* After Close the process ends: the system really stops.
SPECIFICATION ClientFairSpec
CONSTANTS
  Subs = {email, campaign}
  MaxLosses = 3
  MaxChannelFaults = 1
CHECK_DEADLOCK FALSE
INVARIANTS
  OneConsumer
PROPERTY SubscriptionsComeBack
