CONSTANTS
  a = a  b = b  c = c
  Replicas = {a, b}
  NoOne = NoOne
  LeaseDuration = 2
  RetryPeriod = 1
  TicksPerSecond = 1
  CallTime = 3
  MaxSkew = 1
  InitialLeases <- MCAnyLease
  MaxFaults = 2
SPECIFICATION Spec
VIEW TimelessView
INVARIANTS TypeOK OneLeaderPerTerm LeaderHoldsOrSuperseded
PROPERTIES TakeoverOnlyAfterExpiry TransitionsCountTakeovers
