\* Two bridges that start and stop at any time.
SPECIFICATION FairSpec
CONSTANTS
    b1 = b1
    b2 = b2
    Bridge <- TwoBridges
    Wanted <- OneName
    Option <- ThreeOptions
    Retries = 2
    MaxStarts = 3
    MaxFaults = 1
INVARIANTS
    TypeOK
    AloneClaimsItsOwn
    ConfiguredInOrder
    AloneStaysReachable
PROPERTY StartSucceeds
CHECK_DEADLOCK FALSE
