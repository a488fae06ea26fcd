CONSTANTS
    p1 = p1
    p2 = p2
    Pages = {p1}
    MaxRequests = 2
    MaxAsks = 1
    MaxTroubles = 1
    n1 = n1
    n2 = n2
    w1 = w1
    w2 = w2
    StackNames = {n1, n2}
    Windows = {w1, w2}
    MaxChoices = 2
    MaxRuns = 2
    MaxWaiting = 1
SPECIFICATION MCSpec
CHECK_DEADLOCK FALSE
CONSTRAINT OnePreview
SYMMETRY Symmetry
INVARIANTS
    OutcomeHonest
    ShownByNewBuild
    ScreenKept
PROPERTIES
    PhaseForward
