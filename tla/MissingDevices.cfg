SPECIFICATION ViewSpec
CONSTANTS
    c1 = c1
    c2 = c2
    p1 = p1
    p2 = p2
    s1 = s1
    s2 = s2
    s3 = s3
    n1 = n1
    n2 = n2
    k1 = k1
    k2 = k2
    NoNode = NoNode
    NoAllocation = NoAllocation
    AnyValue = AnyValue
    Failed = Failed
    NotRead = NotRead
    Claims = {c1, c2}
    Pods = {p1, p2}
    Slices = {s1, s2, s3}
    Nodes = {n1, n2}
    Classes = {k1, k2}
    Namespace <- MCNamespace
    Name <- MCName
    Named <- MCNamed
    Generated <- MCGenerated
    Guessed <- MCGuessed
    Requested <- MCRequested
    Spec <- MCSpec
    Fits <- MCFits
    Allocations <- MCAllocations
    Worlds <- MCWorlds
    Operations <- MCOperations
    MaxChanges = 2
INVARIANTS
    MissingDevicesAreMissing
CHECK_DEADLOCK FALSE
