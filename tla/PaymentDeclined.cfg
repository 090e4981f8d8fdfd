\* A declined attempt followed by a successful one.
CONSTANTS
    p1 = p1
    w1 = w1
    Payments = {p1}
    Workers = {w1}
    BatchSize = 1
    MaxRequests = 0
    MaxCrashes = 0
SPECIFICATION FairSpec
PROPERTIES
    SucceededIsCompleted
CHECK_DEADLOCK FALSE
