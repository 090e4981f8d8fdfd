\* The batch is smaller than the number of payments flagged for review.
CONSTANTS
    p1 = p1
    p2 = p2
    w1 = w1
    Payments = {p1, p2}
    Workers = {w1}
    BatchSize = 1
    MaxRequests = 0
    MaxCrashes = 1
SPECIFICATION FairSpec
PROPERTIES
    OwingIsResolved
CHECK_DEADLOCK FALSE
