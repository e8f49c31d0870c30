SPECIFICATION MCSpec
CONSTANTS
    t1 = t1
    t2 = t2
    p1 = p1
    p2 = p2
    c1 = c1
    c2 = c2
    Tabs = {t1, t2}
    Stuck = {t2}
    MaxConns = 2
    NoTab = NoTab
    None = None
    MaxVersion = 1
    Probers = {p1, p2}
    Timeout = 1
    Grace = 2
    MaxClock = 4
    Claims = {c1, c2}
    NoClaim = NoClaim
    MaxAsks = 4
INVARIANTS
    TypeOK
    NoSendOnClosedChannel
    ReadyIsRecent
    PaneShowsSelection
PROPERTIES
    ShownGoesBackOnlyOnce
    ReadersCatchUp
    ShutdownEndsStreams
CHECK_DEADLOCK FALSE
