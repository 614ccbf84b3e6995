\* The threads: rx thread, reader and owner, failing system calls, a second
\* open(), and bytes on the line that look like marks.
SPECIFICATION FairSpec
CONSTANTS
    d1 = d1
    d2 = d2
    Data <- MCData
    Message <- ThreadMessages
    FlagFcs <- MCFlagFcs
    Noise <- FlagNoise
    MinFrame = 7
    MaxRx = 10
    CountMod = 3
    WireCap = 1
    PipeCap = 1
    MaxErrors = 1
    MaxFaults = 1
    MaxOpens = 2
INVARIANTS
    TypeOK
    NotificationsMatchPackets
PROPERTIES
    AcceptedIsDelivered
    CloseReturns
    ImplementsPort
CHECK_DEADLOCK FALSE
