CONSTANTS
    c1 = c1
    c2 = c2
    o1 = o1
    o2 = o2
    r1 = r1
    r2 = r2
    i1 = i1
    i2 = i2
    Ops = {i1, i2}
    None = None
    Calls = {c1, c2}
    Owners = {o1}
    Requests = {r1, r2}
    Kinds = {"write", "control", "update"}
    Free = Free
    Cap = 1
    Made = {"automatic"}
    MaxActs = 1
    MaxFaults = 1
SYMMETRY Symmetry
SPECIFICATION Spec
CHECK_DEADLOCK FALSE
INVARIANTS
    OnceInv
    AtMostOnce
    StopsAtCheckpoint
    ApprovedFirst
    OutcomeTrue
    NothingOverwrittenUnread
