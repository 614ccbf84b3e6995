\* Four opens with failing steps, clients that come and go.  The descriptors
\* are as many as BridgeLifecycle_proofs asks for.
SPECIFICATION Spec
CONSTANTS
    MaxFd = 22
    Uninit <- StartValues
    MaxOpens = 4
    MaxFaults = 3
    MaxClients = 2
INVARIANTS
    TypeOK
    RxThreadHasItsLink
    NoThreadIsOverwritten
    ClosedMeansDown
    OnlySocketsAreLost
PROPERTY InspectorClosesItsDevice
CHECK_DEADLOCK FALSE
