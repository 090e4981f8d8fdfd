\* One payment, three processes racing for it.
CONSTANTS
    p1 = p1
    w1 = w1
    w2 = w2
    w3 = w3
    Payments = {p1}
    Workers = {w1, w2, w3}
    BatchSize = 1
    MaxRequests = 2
    MaxCrashes = 1
SPECIFICATION FairSpec
INVARIANTS
    TypeOK
    ExactlyOnce
    FulfilledStaysSettled
    SettledIsCaptured
    CancelledIsNotCaptured
PROPERTIES
    KeepsContract
    OwingIsResolved
    CaptureIsNoticed
CHECK_DEADLOCK FALSE
