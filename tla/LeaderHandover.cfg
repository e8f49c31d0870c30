SPECIFICATION HandoverSpec
CONSTANTS
    r1 = r1
    r2 = r2
    c1 = c1
    c2 = c2
    d1 = d1
    d2 = d2
    Replicas = {r1, r2}
    NoReplica = NoReplica
    Claims = {c1, c2}
    Devices = {d1, d2}
    LeaseDuration = 5
    RenewDeadline = 2
    RetryPeriod = 1
    MaxDrain = 1
    RestartDelay = 2
    MaxTime = 6
SYMMETRY Symmetry
INVARIANTS
    NoOverlap
PROPERTIES
    HandoverKeepsLedger
CHECK_DEADLOCK FALSE
