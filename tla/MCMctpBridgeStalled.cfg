\* Shutdown when a client does not read.
SPECIFICATION BridgeSpec
CONSTANTS
    c1 = c1
    c2 = c2
    Client <- TwoClients
    Backlog = 1
    SockCap = 1
    MaxLinux = 1
    MaxDevice = 2
    MaxClient = 0
    MaxWaiting = 0
    MaxFaults = 0
PROPERTY CloseReturns
CHECK_DEADLOCK FALSE
