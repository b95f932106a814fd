CONSTANTS
  Interleaved = FALSE
  Statuses = {"Active", "Maintenance"}
  Capacities = {1}
  Quantities = {1}
  Ranges <- OneRange
  Never = Never
  Expiries = {Never, 1}
  RuleCapacities = {Never}
  Reductions = {1}
  Overrides = {2}
  Members <- NoPools
  MaxResources = 1
  MaxPools = 0
  MaxCalendar = 0
  MaxReservations = 2
  MaxTasks = 1
  MaxTime = 1
SPECIFICATION Spec
INVARIANTS ConfirmedWithinCapacity
CHECK_DEADLOCK FALSE
