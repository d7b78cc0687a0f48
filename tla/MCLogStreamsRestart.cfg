SPECIFICATION Spec
CONSTANTS
    c1 = c1
    Containers <- MCContainers
    NIL = NIL
    MaxTasks = 2
    MaxSessions = 2
    MaxSwitches = 1
    Capacity = 1
INVARIANT
    OnlyStopsCancel
