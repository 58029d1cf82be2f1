SPECIFICATION Spec
CONSTANTS
    Nodes = {n1, n2}
    Users = {1, 2, 3}
    FirstUsers = {1, 2}
    FirstBanned = {1}
    Chosen = {1, 2}
    BatchSize = 1
    MaxJobs = 1
    MaxChanges = 1
    MaxCrashes = 1
    MaxErrors = 0
INVARIANTS
    TypeOK
    OneMessagePerClaim
    NobodyTwiceARun
    NobodySkipped
PROPERTIES
    ImplementsQueue
CHECK_DEADLOCK FALSE
SYMMETRY Symmetry
