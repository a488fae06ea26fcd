CONSTANTS
    p1 = p1
    p2 = p2
    Pages = {p1}
    MaxRequests = 2
    MaxAsks = 2
    MaxTroubles = 0
SPECIFICATION UntroubledSpec
CHECK_DEADLOCK FALSE
PROPERTIES
    OutcomeReached
