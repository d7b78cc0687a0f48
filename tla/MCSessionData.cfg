SPECIFICATION SessionSpec
CONSTANTS
    ns1 = ns1
    all = all
    nil = nil
    c1 = c1
    c2 = c2
    empty = empty
    Views <- MCDeployments
    Namespaces <- MCNamespaces
    Contexts <- MCContexts
    Kind = "DEPLOYMENTS"
    All = all
    NIL = nil
    EMPTY = empty
    MaxSeq = 2
    MaxGeneration = 1
    MaxDeferred = 0
    MaxVersion = 2
    ListsFail = TRUE
    RefreshesFail = FALSE
SYMMETRY MCSymmetry
CHECK_DEADLOCK FALSE
INVARIANTS
    SessionTypeOK
    WatchersServeSelection
PROPERTY
    ShowsSelectedData
