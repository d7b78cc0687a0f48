SPECIFICATION SessionSpec
CONSTANTS
    ns1 = ns1
    all = all
    nil = nil
    c1 = c1
    c2 = c2
    empty = empty
    Views <- MCDeployments
    Namespaces <- MCNamespaces
    Contexts <- MCOneContext
    Kind = "DEPLOYMENTS"
    All = all
    NIL = nil
    EMPTY = empty
    MaxSeq = 2
    MaxGeneration = 1
    MaxDeferred = 0
    MaxVersion = 2
    ListsFail = FALSE
    RefreshesFail = FALSE
CHECK_DEADLOCK FALSE
PROPERTY
    NamespaceFallbackSound
