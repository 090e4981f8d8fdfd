\* Two staff requests that read the row before the webhook wrote it.
CONSTANTS
    p1 = p1
    w1 = w1
    w2 = w2
    w3 = w3
    Payments = {p1}
    Workers = {w1, w2, w3}
    BatchSize = 1
    MaxRequests = 2
    MaxCrashes = 1
SPECIFICATION Spec
SYMMETRY Symmetric
INVARIANTS
    FulfilledExactlyOnce
CHECK_DEADLOCK FALSE
