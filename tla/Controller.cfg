SPECIFICATION ProcessSpec
CONSTANTS
    poolSync = poolSync
    allocationSync = allocationSync
    h1 = h1
    Pipelines = {poolSync, allocationSync}
    Handlers = {h1}
    Feeds <- OneHandler
    MaxControllerQueueRetries = 1
    ErrorKinds = {"transient", "terminal"}
    MaxEvents = 1
    MaxErrors = 2
    LeaderElect = {TRUE, FALSE}
INVARIANTS
    TypeOK
    NothingRunsAfterReturn
    NothingActiveAfterLifecycle
PROPERTIES
    WorkQueueIsAbstraction
    EventsAreHandled
    CancelStopsRun
    EveryEndIsReached
CHECK_DEADLOCK FALSE
