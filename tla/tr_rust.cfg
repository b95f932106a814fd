CONSTANTS
  Interleaved = FALSE
  Statuses = {"Active", "Maintenance"}
  Capacities = {1, 2}
  Quantities = {1}
  Ranges <- AllRanges
  Never = Never
  Expiries = {Never, 1}
  RuleCapacities = {Never}
  Reductions = {1}
  Overrides = {2}
  Members <- OnePool
  MaxResources = 2
  MaxPools = 1
  MaxCalendar = 1
  MaxReservations = 2
  MaxTasks = 1
  MaxTime = 1
SPECIFICATION Spec
CONSTRAINT CalendarOrPool
INVARIANTS TypeOK CountedWithinCapacity CancelledStaysCancelled
PROPERTIES AllocationIsAllOrNothing
CHECK_DEADLOCK FALSE
