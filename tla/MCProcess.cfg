SPECIFICATION Spec
CONSTANTS
    Attempts = {a1, a2, a3}
    LoginKeys = {k1}
    Limit = 2
    Window = 2
    BlockFor = 2
    SweepEvery = 2
    MaxLogins = 4
    MaxTime = 5
    Requests = {q1, q2}
    Codes = {c1}
    MaxRequests = 3
    MaxRedemptions = 2
    MaxFaults = 2
    MaxTogether = 4
INVARIANTS
    TypeOK
    BlockIsEarned
    PromisedSettingHolds
    UsesSurvive
PROPERTIES
    BlockRunsItsTime
CHECK_DEADLOCK FALSE
SYMMETRY Symmetry
