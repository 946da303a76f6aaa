CONSTANTS
    S = S  A = A  B = B  C = C  D = D  X = X  G = G
    Stages <- WorkerStages
    MainInputs <- MCMainInputs
    SideInputs <- MCSideInputs
    Kind <- MCKind
    RequiredWatermark <- MCRequired
    MaxInFlight <- MCMaxInFlight
    Partitions = {"default"}
    DefaultPartition = "default"
    MinTs <- MCMinTs
    MaxTs = 2
    Workers <- MCWorkers
    Splittables <- MCSplittables
    TestStreams = {}
    Script <- NoScript
    TimerKeys = {"a", "c"}
    TimerStage <- OwnerByName
    TimerDomain <- AllEvent
    TimerSettings <- OneSetting
    OutputTimes = {0, 1}
    MaxCommits <- MCMaxCommits
    MaxTimerSets = 1
    MaxFlushes = 1
    ItemKinds = {}
    MaxItems = 0
    MaxNow = 0
    MayFail = FALSE
SPECIFICATION Spec
INVARIANTS
    NoStrandedTimer
