CONSTANTS
  Interleaved = TRUE
  Statuses = {"Active", "Maintenance"}
  Capacities = {1}
  Quantities = {1}
  Ranges <- OneRange
  Never = Never
  Expiries = {Never}
  RuleCapacities = {Never}
  Reductions = {1}
  Overrides = {2}
  Members <- NoPools
  MaxResources = 1
  MaxPools = 0
  MaxCalendar = 0
  MaxReservations = 2
  MaxTasks = 2
  MaxTime = 0
SPECIFICATION Spec
INVARIANTS CountedWithinCapacity
CHECK_DEADLOCK FALSE
