SPECIFICATION FairSpec
CONSTANTS
    Null = Null
    Nodes = {n1, n2}
    Editors = {e1}
    Intervals <- EveryUnit
    DefaultInterval = 1
    Starts <- OneItem
    MaxNow = 1
    MaxFaults = 1
    MaxItems = 2
    Ops = {"disable", "enable", "sort"}
    MaxRequests = 1
PROPERTIES
    DueIsProcessed
    DissolvedIsSwitchedOff
    RequestsFinish
CHECK_DEADLOCK FALSE
