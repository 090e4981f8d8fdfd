\* A late success meets a closed order.
CONSTANTS
    o1 = o1
    w1 = w1
    w2 = w2
    Orders = {o1}
    Workers = {w1, w2}
    InitialStock = 2
    StockCap = 2
    MaxQuantity = 2
    HoldTime = 1
    ExtensionTime = 1
    MaxExtensions = 1
    MaxHoldTime = 2
    CheckoutTime = 1
    RetryTime = 1
    ApprovalRequired = FALSE
    MaxRequests = 2
SPECIFICATION Spec
PROPERTIES
    ReopenedByNoPayment
CHECK_DEADLOCK FALSE
