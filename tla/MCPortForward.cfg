SPECIFICATION Spec
CONSTANTS
    c1 = c1
    c2 = c2
    Pods = {1, 2, 3}
    RemotePorts = {1}
    Ports = {1, 2}
    Contexts <- MCContexts
    NIL = NIL
PROPERTIES
    TunnelsAreServed
    SelectionFollows
INVARIANTS
    ForwardTypeOK
    ListenersAreReached
