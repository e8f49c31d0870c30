SPECIFICATION Spec
CONSTANTS
    n1 = n1
    n2 = n2
    d1 = d1
    d2 = d2
    gpu = gpu
    NClaims = 2
    NSlices = 2
    Devices = {d1, d2}
    Nodes = {n1, n2}
    Classes = {gpu}
    SliceNode <- MCSliceNode
    Selected <- MCSelected
    Capacity <- MCCapacity
    Specs <- OneDevice
    SliceObjects <- BothDevices
    AllocationResultsMaxSize = 2
    MaxControllerQueueRetries = 1
    FaultKinds = {}
    MaxFaults = 0
    MaxChanges = 4
INVARIANTS
    HealthyDevicesAvailable
CHECK_DEADLOCK FALSE
