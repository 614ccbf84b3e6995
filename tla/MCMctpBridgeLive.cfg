\* Progress of the dispatch thread when clients read what they are sent.
SPECIFICATION FairSpec
CONSTANTS
    c1 = c1
    c2 = c2
    Client <- TwoClients
    Backlog = 1
    SockCap = 1
    MaxLinux = 2
    MaxDevice = 0
    MaxClient = 0
    MaxWaiting = 1
    MaxFaults = 0
PROPERTIES
    KernelPacketsFlow
    NextClientIsServed
    CloseReturns
CHECK_DEADLOCK FALSE
