CONSTANTS
    p1 = p1
    p2 = p2
    Procs = {p1, p2}
    NoProc = NoProc
    Versions = {1, 3}
    SchemaOf <- MCSchemaOf
    MaxOps = 1
    MaxWrites = 2
    MaxFaults = 2
SYMMETRY Symmetry
SPECIFICATION Spec
CHECK_DEADLOCK FALSE
INVARIANTS
    IInv
    NoWriterDuringRestore
    JournalTellsDowntime
