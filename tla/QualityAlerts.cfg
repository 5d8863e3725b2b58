SPECIFICATION MCSpec
CONSTANTS
    SfuUsers = {"p", "v", "w"}
    SfuStreams <- SfuStreamsDef
    MaxPresenters = 2
    MaxViewers = 2
    MaxTracks = 1
    SfuObservers = {"o"}
    GoodSamples = 2
    MinUpswitch = 2
    MaxSfuOps = 5
    MNodes = {1, 2, 3}
    MRegion <- MRegionDef
    CallTypes = {"meeting"}
    Caps <- CapsDef
    FanoutThreshold = 3
    MaxRooms = 2
    MaxMediaOps = 4
    QWindow = 2
    MaxSamples = 4
    Events = {"e1", "e2"}
    Deliveries = {1, 2, 3}
    MaxTokens = 4
    MaxFaults = 2
    MaxSlow = 1
    Sides = {"alerts"}
INVARIANT BadSampleIsAlerted
CHECK_DEADLOCK FALSE
