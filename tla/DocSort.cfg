SPECIFICATION Spec
CONSTANTS
    Null = Null
    Nodes = {}
    Editors = {e1}
    Intervals <- EveryUnit
    DefaultInterval = 1
    Starts <- TwoItems
    MaxNow = 0
    MaxFaults = 0
    MaxItems = 2
    Ops = {"delete", "sort"}
    MaxRequests = 2
INVARIANT LiveListSortable
CHECK_DEADLOCK FALSE
