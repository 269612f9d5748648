SPECIFICATION HistorySpec
CONSTANTS
    IPs = {a, b}
    Positions = {p1}
    Lcores = {l1, l2, l3}
    Maint = m
    Max = 1
    Window = 0
    Expire = 0
    CleanupBatch = 1
    ReclaimAddMax = 1
    CountMod = 6
    ClockMod = 16
    Closes = TRUE
    Start = 1
    MaxTime = 2
    None = None
SYMMETRY Alike
INVARIANTS TypeOK OwnTracker WindowBounded
PROPERTY WindowForward
