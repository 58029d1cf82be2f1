SPECIFICATION FairSpec
CONSTANTS
    Nodes = {n1, n2}
    Users = {1, 2, 3}
    FirstUsers = {1, 2}
    FirstBanned = {1}
    Chosen = {1, 2}
    BatchSize = 1
    MaxJobs = 1
    MaxChanges = 0
    MaxCrashes = 1
    MaxErrors = 1
INVARIANTS
    SentMeansReceived
    CountersCoverRows
PROPERTIES
    QueuedIsFinished
CHECK_DEADLOCK FALSE
