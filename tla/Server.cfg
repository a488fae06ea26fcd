CONSTANTS
    p1 = p1
    p2 = p2
    w1 = w1
    c1 = c1
    up = up
    sh = sh
    k1 = k1
    k2 = k2
    k3 = k3
    f1 = f1
    f2 = f2
    g1 = g1
    s1 = s1
    r1 = r1
    r2 = r2
    Watched = {w1}
    MaxClock = 2
    MaxGap = 1
    MaxStarts = 2
    Calls = {c1}
    Keys = {up, sh}
    CommandKeys = {up}
    Clients = {p1, p2}
    MaxTerminals = 2
    Callers = {p1, p2}
    MaxChanges = 2
    MaxReads = 3
    CacheKeys = {k1, k2, k3}
    MaxBytes = 3
    MaxEntries = 2
    Ttl = 2
    MaxTime = 4
    GitFiles = {f1, f2}
    AddedLater = {f2}
    GitPages = {g1}
    MaxCommits = 1
    MaxGitEdits = 1
    MaxGitTroubles = 1
    Stacks = {s1}
    Requests = {r1, r2}
    MaxSelections = 1
    MaxVisits = 1
    MaxDirTroubles = 1
SPECIFICATION MCSpec
CHECK_DEADLOCK FALSE
INVARIANTS
    ReadingsCurrent
    CacheKept
    AvailabilityMeasured
PROPERTIES
    HistoryTrue
    CallsSettle
    TerminalsKept
    GitKept
    DirectoriesKept
    ServerProgress
