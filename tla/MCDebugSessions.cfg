SPECIFICATION FairSpec
CONSTANTS
    n1 = n1
    n2 = n2
    Nodes <- MCNodes
    NIL = NIL
    MaxSessions = 2
    MaxGeneration = 2
INVARIANTS
    DebugTypeOK
    DebugShellIsShown
    ShellsCanBeStopped
PROPERTIES
    PodsAreHandedOn
    PodsWithoutShellAreDeleted
CHECK_DEADLOCK FALSE
