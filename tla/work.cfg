\* Work: participants of cases, dependencies of tasks, queues and escalation.
SPECIFICATION WorkSpec
CONSTANTS
    Principals = {"ann", "bob"}
    Groups = {"crew"}
    Kinds = {"review", "repair"}
    Queues = {"fast"}
    AcceptedKinds <- MCAcceptedKinds
    Nobody = "nobody"
    Resolutions = {1}
    MaxCases = 1
    MaxTasks = 2
    MaxItems = 1
    MaxTargets = 1
    MaxParticipants = 1
    MaxWorkTime = 3
CONSTRAINT OneConcern
INVARIANTS
    WorkInv
PROPERTIES
    StuckForGood
    WorkFinishes
    OverdueIsEscalated
\* The clock stops at its bound and stores fill up: a behaviour may end.
CHECK_DEADLOCK FALSE
