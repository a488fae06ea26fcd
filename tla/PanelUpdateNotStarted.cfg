CONSTANTS
    p1 = p1
    p2 = p2
    Pages = {p1}
    MaxRequests = 2
    MaxAsks = 1
    MaxTroubles = 1
SPECIFICATION Spec
CHECK_DEADLOCK FALSE
INVARIANTS
    NotStartedIsFinal
