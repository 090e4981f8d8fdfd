\* One order, two unlocked requests at a time, a shelf for one unit.
CONSTANTS
    o1 = o1
    w1 = w1
    w2 = w2
    Orders = {o1}
    Workers = {w1, w2}
    InitialStock = 1
    StockCap = 1
    MaxQuantity = 2
    HoldTime = 1
    ExtensionTime = 1
    MaxExtensions = 1
    MaxHoldTime = 2
    CheckoutTime = 1
    RetryTime = 1
    ApprovalRequired = FALSE
    MaxRequests = 3
SPECIFICATION FairSpec
INVARIANTS
    TypeOK
    BilledUndisturbed
    HoldOrPayment
PROPERTIES
    ClosedIsFinal
    KeepsContract
    CartsAreReleased
CHECK_DEADLOCK FALSE
