SPECIFICATION Spec
CONSTANTS
    Modes = {"demo", "node"}
    NumClaims = 2
    Devices <- MCDevices
    Allocations <- MCAllocations
    DemoDevices <- MCDemoDevices
    SimDrivers = {"sim"}
    NodeName = "node-a"
    NoAllocation = NoAllocation
    NoFile = NoFile
    MaxChanges = 3
    MaxFaults = 2
    MaxCrashes = 2
INVARIANTS
    DocumentsAreComplete
    ReadyMeansPublished
    FailureKeepsADocument
PROPERTIES
    Converges
