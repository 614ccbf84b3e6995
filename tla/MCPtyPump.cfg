\* Both copying threads: far ends that come and go, a device that is replaced.
SPECIFICATION FairSpec
CONSTANTS
    Class <- BothClasses
    Fd <- TwoFds
    Uninit <- AnyFd
    BufSize = 2
    Cap = 1
    Signals = TRUE
    MaxBytes = 2
    MaxOpens = 3
INVARIANTS
    TypeOK
    PtyIsLossless
PROPERTIES
    ImplementsLine
    BytesFlow
    DestructorReturns
CHECK_DEADLOCK FALSE
