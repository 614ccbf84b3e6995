\* The inspector's thread and a descriptor number that is not open.
SPECIFICATION Spec
CONSTANTS
    Class <- Inspector
    Fd <- TwoFds
    Uninit <- AnyFd
    BufSize = 2
    Cap = 1
    Signals = FALSE
    MaxBytes = 1
    MaxOpens = 2
INVARIANTS
    LoopsWhileRunning
CHECK_DEADLOCK FALSE
