\* What the three ports carry: two clients, one of which may wait.
SPECIFICATION Spec
CONSTANTS
    c1 = c1
    c2 = c2
    Client <- TwoClients
    Backlog = 1
    SockCap = 1
    MaxLinux = 1
    MaxDevice = 2
    MaxClient = 1
    MaxWaiting = 0
    MaxFaults = 1
SYMMETRY Symmetry
INVARIANTS
    ReadyIsThere
    PortsKeepOrder
    UnicastIsLossless
    Separation
PROPERTIES
    UsesPorts
CHECK_DEADLOCK FALSE
