SPECIFICATION FairSpec
CONSTANTS
    a = a
    b = b
    v = v
    w = w
    Uids <- MCUids
    Values <- MCValues
    ABSENT = ABSENT
    NIL = NIL
    MaxChanges = 2
    MaxFailures = 1
    MaxRestarts = 1
    Capacity = 2
INVARIANTS
    TypeOK
PROPERTIES
    Implements
    Converges
CHECK_DEADLOCK FALSE
