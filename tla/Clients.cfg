CONSTANTS
    u1 = u1
    u2 = u2
    b1 = b1
    b2 = b2
    t1 = t1
    t2 = t2
    forth = forth
    back = back
    p1 = p1
    p2 = p2
    Accounts = {u1, u2}
    Browsers = {b1, b2}
    Events = {"status", "demote"}
    MaxPackets = 2
    MaxSignIns = 1
    Tabs = {t1, t2}
    MaxLogins = 4
    MaxConnections = 3
    MaxEnded = 1
    MaxEdits = 1
    Panels = {"a", "b"}
    Assertions = {forth, back}
    Copies = {"first", "second", "return"}
    Receiver <- MCReceiver
    CallOf <- MCCallOf
    Places = 1
    Lifetime = 1
    MaxMoment = 1
    MaxGroups = 2
    Readers = {p1, p2}
    MaxEvents = 2
    MaxWriteFaults = 1
SPECIFICATION MCSpec
CHECK_DEADLOCK FALSE
INVARIANTS
    ConnectionsKept
    DelegatedInForce
    RepeatsKept
PROPERTIES
    OwnersRemain
    AccessInForce
    ClientsProgress
