CONSTANTS
    S = S  A = A  B = B  C = C  D = D  X = X  G = G
    Stages <- SideStages
    MainInputs <- MCMainInputs
    SideInputs <- MCSideInputs
    Kind <- MCKind
    RequiredWatermark <- MCRequired
    MaxInFlight <- MCMaxInFlight
    Partitions = {"default"}
    DefaultPartition = "default"
    MinTs <- MCMinTs
    MaxTs = 2
    Workers <- MCWorkers
    Splittables <- MCSplittables
    TestStreams = {S}
    Script <- SideScript
    TimerKeys = {"p"}
    TimerStage <- OwnerByName
    TimerDomain <- MixedDomains
    TimerSettings <- OneSetting
    OutputTimes = {0, 1}
    MaxCommits <- MCMaxCommits
    MaxTimerSets = 1
    MaxFlushes = 1
    ItemKinds = {}
    MaxItems = 0
    MaxNow = 1
    MayFail = FALSE
SPECIFICATION FairSpec
INVARIANTS
    NeverDeadlocked
PROPERTIES
    SideInputsProduced
    Terminates
