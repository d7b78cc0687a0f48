SPECIFICATION FairSpec
CONSTANTS
    ns1 = ns1
    all = all
    nil = nil
    Views <- MCPodsSecrets
    Namespaces <- MCNoNamespace
    All = all
    NIL = nil
    MaxSeq = 2
    MaxGeneration = 1
    MaxDeferred = 0
CHECK_DEADLOCK FALSE
PROPERTY
    InFlightEnds
