\* Refunds processed for more than the payment; bank transfers, which no
\* provider limits.
CONSTANTS
    a = a
    b = b
    s1 = s1
    s2 = s2
    Scenarios = {"refunds"}
    Attendees = {a, b}
    Buyer = a
    Asks <- MCAsks
    Edits <- MCEdits
    Units = 2
    Methods = {"bank"}
    MaxCalls = 2
    Workers = {p1, p2}
    Carts = {s1, s2}
    Variants = {"small", "large"}
    VariantLimit <- MCVariantLimit
    ProductLimit = 2
    Baskets <- MCBaskets
    MostUnits = 2
    Shoppers = {p1, p2}
    MaxOrdered = 5
    Desks = {p1, p2}
    MaxRequests = 3
    Workshops = {"x", "y"}
    Members = {"m", "n", "o"}
    Capacity <- MCCapacity
    Programmes <- MCProgrammes
    Submitted <- MCSubmitted
    Clerks = {p1, p2}
    MaxServices = 3
    Conns = {p1, p2}
    UserOf <- MCUserOf
    Sections = {s1, s2}
    MaxEvents = 3
    MaxBusy = 2
    Hosts = {p1, p2}
    InviteKinds = {"staff", "leader"}
    MaxInvites = 2
    MaxActs = 4
    MaxDeaths = 1
    People = {s1, s2}
    Agents = {p1, p2}
    MaxUses = 1
    MaxOrders = 2
    MaxCrashes = 1
SPECIFICATION Spec
SYMMETRY MCSymmetry
INVARIANTS
    RefundedWithinPayment
CHECK_DEADLOCK FALSE
