CONSTANTS
    Stages <- ForkStages
    MainInputs <- MCMainInputs
    SideInputs <- MCSideInputs
    Kind <- MCKind
    RequiredWatermark <- MCRequired
    MaxInFlight <- MCMaxInFlight
    Partitions = {"p0"}
    DefaultPartition = "p0"
    MinTs <- MCMinTs
    MaxTs = 1
    TimerHoldMaps = {}
    DeferredHoldMaps = {}
    TimerStages <- ForkStages
    HoldTimes = {}
    OutputMins = {0, 2}
    Reports = {}
    IdleSettings = {}
    MaxQueued <- MCMaxQueued
    MaxHolds = 1
SPECIFICATION Spec
INVARIANTS TypeOK BundleBehindInput
PROPERTIES WaveBehindPending ImplementsContract
