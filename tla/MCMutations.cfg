SPECIFICATION Spec
CONSTANTS
    r1 = r1
    NIL = NIL
    Resources <- MCResources
    MaxEntries = 2
    MaxId = 3
    MaxRunning = 2
    MaxRequest = 2
    MaxGeneration = 2
INVARIANTS
    MutationsTypeOK
    DeletesExclude
    NodeOpIsCarried
    LockedTabsAreServed
PROPERTY
    HistoryKeepsPromise
