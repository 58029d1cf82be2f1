SPECIFICATION FairSpec
CONSTANTS
    Requests = {q1, q2}
    AuthKeys = {k1, k2}
    Reasons = {spam}
    NoReason = NoReason
    MaxRequests = 3
    MaxLogins = 1
    MaxFaults = 1
INVARIANTS
    TypeOK
    BannedAreOut
    NoConnectionLeft
PROPERTIES
    BanTakesEffect
CHECK_DEADLOCK FALSE
