SPECIFICATION Spec
CONSTANTS
    Null = Null
    Nodes = {n1, n2}
    Editors = {}
    Intervals <- EveryUnit
    DefaultInterval = 1
    Starts <- TwoItems
    MaxNow = 3
    MaxFaults = 2
    MaxItems = 2
    Ops = {}
    MaxRequests = 0
SYMMETRY Symmetry
INVARIANTS
    TypeOK
    OneWorkerSends
    SuccessWasDelivered
    OneMessagePerSlot
    RotationOrder
CHECK_DEADLOCK FALSE
