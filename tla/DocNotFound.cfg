SPECIFICATION FairSpec
CONSTANTS
    Requests = {q1, q2}
    AuthKeys = {k1, k2}
    Reasons = {spam}
    NoReason = NoReason
    MaxRequests = 2
    MaxLogins = 0
    MaxFaults = 1
PROPERTIES
    NotFoundIsTrue
CHECK_DEADLOCK FALSE
