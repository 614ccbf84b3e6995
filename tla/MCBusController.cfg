\* Controllers made, closed and made again, with two devices.
SPECIFICATION Spec
CONSTANTS
    d1 = d1
    d2 = d2
    e1 = e1
    e2 = e2
    Device <- TwoDevices
    EID <- TwoEids
    EidRange <- Ranges
    MaxControllers = 2
    MaxName = 2
    MaxEvents = 2
SYMMETRY Symmetry
INVARIANTS
    TypeOK
    EidsAreUnique
    NothingIsLeft
    OneController
    AloneHasItsInterface
CHECK_DEADLOCK FALSE
