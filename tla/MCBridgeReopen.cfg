\* What run() selects on after a second open.
SPECIFICATION Spec
CONSTANTS
    MaxFd = 18
    Uninit <- Harmless
    MaxOpens = 3
    MaxFaults = 0
    MaxClients = 2
INVARIANT SelectsOnPipes
CHECK_DEADLOCK FALSE
