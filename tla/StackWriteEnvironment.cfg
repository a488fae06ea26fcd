CONSTANTS
    s1 = s1
    s2 = s2
    Savers = {s1}
    Compose = Compose
    EnvFiles = {env}
    Texts = {Blank, a}
    Blank = Blank
    Missing = Missing
    Unknown = Unknown
    MaxSaves = 1
    MaxEdits = 1
    MaxRaces = 1
    MaxFaults = 1
    MaxTorn = 1
    MaxCuts = 1
SPECIFICATION FairSpec
CHECK_DEADLOCK FALSE
INVARIANTS
    TextKept
PROPERTIES
    ComesUp
