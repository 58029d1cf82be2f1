SPECIFICATION Spec
CONSTANTS
    Null = Null
    Nodes = {}
    Editors = {e1, e2}
    Intervals <- EveryUnit
    DefaultInterval = 1
    Starts <- NothingOrOne
    MaxNow = 0
    MaxFaults = 0
    MaxItems = 2
    Ops = {"get", "save", "enable", "disable", "add", "update", "delete", "sort"}
    MaxRequests = 2
SYMMETRY Symmetry
INVARIANTS
    VersionedSaveIsCurrent
PROPERTIES
    VersionTracksConfig
    DeletedStaysDeleted
CHECK_DEADLOCK FALSE
