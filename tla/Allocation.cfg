SPECIFICATION Spec
CONSTANTS
    n1 = n1
    n2 = n2
    d1 = d1
    d2 = d2
    gpu = gpu
    NClaims = 2
    NSlices = 2
    Devices = {d1, d2}
    Nodes = {n1, n2}
    Classes = {gpu}
    SliceNode <- MCSliceNode
    Selected <- MCSelected
    Capacity <- MCCapacity
    Specs <- SharedSpecs
    SliceObjects <- SharedObjects
    AllocationResultsMaxSize = 2
    MaxControllerQueueRetries = 8
    FaultKinds = {"transient"}
    MaxFaults = 1
    MaxChanges = 3
INVARIANTS
    NoDoubleAllocation
    CapacityRespected
    AllocationAnswersSpec
PROPERTIES
    ImplementsLedger
    ServableClaimsAreServed
CHECK_DEADLOCK FALSE
