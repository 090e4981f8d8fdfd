\* Purchase limits, check-in, workshops, presence, invitations and memberships.
CONSTANTS
    a = a
    b = b
    s1 = s1
    s2 = s2
    Scenarios = {"limits", "check-in", "workshops", "presence",
                 "invitations", "memberships"}
    Attendees = {a, b}
    Buyer = a
    Asks <- MCAsks
    Edits <- MCEdits
    Units = 2
    Methods = {"stripe", "bank"}
    MaxCalls = 2
    Workers = {p1, p2}
    Carts = {s1, s2}
    Variants = {"small", "large"}
    VariantLimit <- MCVariantLimit
    ProductLimit = 2
    Baskets <- MCBaskets
    MostUnits = 2
    Shoppers = {p1, p2}
    MaxOrdered = 5
    Desks = {p1, p2}
    MaxRequests = 3
    Workshops = {"x", "y"}
    Members = {"m", "n", "o"}
    Capacity <- MCCapacity
    Programmes <- MCProgrammes
    Submitted <- MCSubmitted
    Clerks = {p1, p2}
    MaxServices = 3
    Conns = {p1, p2}
    UserOf <- MCUserOf
    Sections = {s1, s2}
    MaxEvents = 4
    MaxBusy = 2
    Hosts = {p1, p2}
    InviteKinds = {"staff", "leader"}
    MaxInvites = 2
    MaxActs = 4
    MaxDeaths = 1
    People = {s1, s2}
    Agents = {p1, p2}
    MaxUses = 1
    MaxOrders = 2
    MaxCrashes = 1
SPECIFICATION Spec
SYMMETRY MCSymmetry
INVARIANTS
    TypeOK
    KeptWithinLimit
    AdmittedOnce
    RecordsAgree
    CancelledStaysOut
    NeverOverfull
    NoIdlePlace
    FirstComeFirstServed
    LiveIsListed
    ViewsAgree
    AdmitsOnce
    NoStrayPermissions
    AcceptedIsIn
    CodeWithinLimit
    InvitedIsVerified
PROPERTIES
    PlacesAreKept
CHECK_DEADLOCK FALSE
