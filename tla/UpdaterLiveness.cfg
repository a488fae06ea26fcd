CONSTANTS
    p1 = p1
    p2 = p2
    Procs = {p1}
    NoProc = NoProc
    Versions = {1, 2, 3}
    SchemaOf <- MCSchemaOf
    MaxOps = 1
    MaxWrites = 2
    MaxFaults = 2
SPECIFICATION InsistentSpec
CHECK_DEADLOCK FALSE
PROPERTIES
    LockReleased
    RecoveryEnds
