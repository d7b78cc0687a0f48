SPECIFICATION FairSpec
CONSTANTS
    ns1 = ns1
    all = all
    nil = nil
    Views <- MCSecretsProjects
    Namespaces <- MCOneNamespace
    All = all
    NIL = nil
    MaxSeq = 3
    MaxGeneration = 1
    MaxDeferred = 2
CHECK_DEADLOCK FALSE
INVARIANTS
    TypeOK
    NamespaceWork
    InFlightIsCarried
    BackfillsHaveNoCore
PROPERTIES
    NothingIsForgotten
    RefreshIsAnswered
