CONSTANTS
    s1 = s1
    s2 = s2
    Savers = {s1, s2}
    Compose = Compose
    env1 = env1
    env2 = env2
    EnvFiles = {env1, env2}
    Texts = {Blank, a}
    Blank = Blank
    Missing = Missing
    Unknown = Unknown
    MaxSaves = 2
    MaxEdits = 1
    MaxRaces = 0
    MaxFaults = 2
    MaxTorn = 0
    MaxCuts = 0
SPECIFICATION MCFairSpec
CHECK_DEADLOCK FALSE
INVARIANTS
    SavesSettled
    NoLostUpdate
PROPERTIES
    EveryRequestAnswered
