CONSTANTS
    Stages <- ChainStages
    Order <- SortedIds
    MainInputs <- MCMainInputs
    SideInputs <- MCSideInputs
    Kind <- MCKind
    RequiredWatermark <- MCRequired
    MaxInFlight <- MCMaxInFlight
    Partitions = {"p0"}
    DefaultPartition = "p0"
    MinTs <- MCMinTs
    MaxTs = 1
    TimerHoldMaps <- MCHoldMaps
    DeferredHoldMaps <- MCHoldMaps
    TimerStages = {"A"}
    HoldTimes = {0}
    OutputMins = {2}
    Reports = {0}
    IdleSettings = {TRUE}
    MaxQueued <- MCMaxQueued
    MaxHolds = 1
SPECIFICATION RefreshSpec
PROPERTIES
    RefreshSettles
    AdvancedReported
    ImplementsManager
    ImplementsContract
    RefreshReturns
