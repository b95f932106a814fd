CONSTANTS
  a = a  b = b  c = c
  Replicas = {a, b}
  NoOne = NoOne
  LeaseDuration = 4
  RetryPeriod = 1
  TicksPerSecond = 2
  CallTime = 1
  MaxSkew = 1
  InitialLeases <- MCNoLease
  MaxFaults = 2
SPECIFICATION FairSpec
VIEW TimelessView
INVARIANT OnlyHolderReconciles
PROPERTIES LeadershipSettles
