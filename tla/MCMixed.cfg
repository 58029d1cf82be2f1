SPECIFICATION Spec
CONSTANTS
    Null = Null
    Nodes = {n1}
    Editors = {e1}
    Intervals <- ShortAndLong
    DefaultInterval = 1
    Starts <- OneOrTwo
    MaxNow = 2
    MaxFaults = 0
    MaxItems = 2
    Ops = {"save", "enable", "disable", "update", "delete", "sort"}
    MaxRequests = 1
INVARIANTS
    SendsFromCurrentRow
    DueWithinInterval
PROPERTY
    ImplementsSchedule
CHECK_DEADLOCK FALSE
