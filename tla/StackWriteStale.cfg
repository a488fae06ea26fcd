CONSTANTS
    s1 = s1
    s2 = s2
    Savers = {s1, s2}
    Compose = Compose
    EnvFiles = {env}
    Texts = {Blank, a}
    Blank = Blank
    Missing = Missing
    Unknown = Unknown
    MaxSaves = 2
    MaxEdits = 0
    MaxRaces = 0
    MaxFaults = 3
    MaxTorn = 0
    MaxCuts = 0
SPECIFICATION Spec
CHECK_DEADLOCK FALSE
SYMMETRY Symmetry
INVARIANTS
    SavedNeverUndone
