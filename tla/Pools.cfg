SPECIFICATION PoolsSpec
CONSTANTS
    p1 = p1
    p2 = p2
    a = a
    b = b
    s1a = s1a
    s1b = s1b
    s2a = s2a
    s2b = s2b
    Pools = {p1, p2}
    Nodes = {a, b}
    Names = {s1a, s1b, s2a, s2b}
    NameOf <- DistinctNames
    Targets <- AllOrOne
    Healths = {"healthy", "disappear", "noSpec"}
    LegacySlices <- FreshOrUpgraded
    MaxControllerQueueRetries = 8
    FaultKinds = {"transient", "terminal", "noCRD"}
    MaxFaults = 1
    MaxChanges = 2
INVARIANTS
    OwnedSlicesHaveOwner
PROPERTIES
    DeletionsHaveCause
    Converges
    Quiesces
CHECK_DEADLOCK FALSE
