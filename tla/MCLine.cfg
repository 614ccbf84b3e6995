\* The line: two errors on the wire against three packets, the receive FSM and
\* the channel the link implements; bytes and changed bits against the checksum.
SPECIFICATION LineSpec
CONSTANTS
    d1 = d1
    d2 = d2
    Data <- MCData
    Message <- LineMessages
    FlagFcs <- MCFlagFcs
    Noise <- MCNoise
    MinFrame = 7
    MaxRx = 10
    CountMod = 3
    WireCap = 1
    PipeCap = 1
    MaxErrors = 2
    MaxFaults = 0
    MaxOpens = 1
    Longest = 257
INVARIANTS BoundedLoss FcsIsCrc TwoBitsAreSeen
PROPERTY ImplementsChannel
CHECK_DEADLOCK FALSE
