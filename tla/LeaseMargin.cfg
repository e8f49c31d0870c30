SPECIFICATION HandoverSpec
CONSTANTS
    r1 = r1
    r2 = r2
    c1 = c1
    c2 = c2
    d1 = d1
    d2 = d2
    Replicas = {r1, r2}
    NoReplica = NoReplica
    Claims = {c1, c2}
    Devices = {d1, d2}
    LeaseDuration = 4
    RenewDeadline = 3
    RetryPeriod = 2
    MaxDrain = 1
    RestartDelay = 2
    MaxTime = 8
SYMMETRY Symmetry
INVARIANTS
    NoOverlap
CHECK_DEADLOCK FALSE
