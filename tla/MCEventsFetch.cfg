SPECIFICATION FairSpec
CONSTANTS
    ns1 = ns1
    all = all
    nil = nil
    Namespaces <- MCNamespaces
    All = all
    NIL = nil
    MaxFetches = 2
    MaxGeneration = 1
    MaxDeferred = 1
    MaxVersion = 1
INVARIANTS
    EventsTypeOK
    FetchIsCarried
    NamespaceFetches
    EventsOfSelection
PROPERTIES
    ShowsSelectedEvents
    EventsConverge
