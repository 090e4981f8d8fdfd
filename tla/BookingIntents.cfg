\* Three intents of two customers, two payments, two requests at a time.
CONSTANTS
    i1 = i1
    i2 = i2
    i3 = i3
    w1 = w1
    w2 = w2
    p1 = p1
    p2 = p2
    Intents = {i1, i2, i3}
    OwnerOf <- MCOwnerOf
    Payments = {p1, p2}
    Workers = {w1, w2}
    Capacity = 3
    MaxSeats = 2
    MaxRequests = 4
SPECIFICATION Spec
SYMMETRY MCSymmetry
INVARIANTS
    TypeOK
    NeverOverbooked
    OneBooking
PROPERTIES
    KeepsContract
CHECK_DEADLOCK FALSE
