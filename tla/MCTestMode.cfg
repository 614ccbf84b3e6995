\* Test mode: main and its dispatch thread at both ends of one connection.
SPECIFICATION FairSpec
CONSTANT SockCap = 3
INVARIANTS
    NoMutualWait
PROPERTIES
    InterruptedReturns
CHECK_DEADLOCK FALSE
