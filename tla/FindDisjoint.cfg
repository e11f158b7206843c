CONSTANTS
    None = None
    w1 = w1
    w2 = w2
    k1 = k1
    k2 = k2
    Web = Web
    Workers = {w1, w2}
    Keys = {k1}
    Jobs <- TwoJobs
    Priority <- SamePriority
    Exclusive <- NoneExclusive
    Models <- OneModelEach
    Size <- UnitSize
    SettingsChoices <- Sequential
    RetentionLimit = 0
    WindowSize = 2
    MaxFaults = 1
    TimelyHeartbeats = TRUE
SPECIFICATION Spec
SYMMETRY WorkerSymmetry
INVARIANT PlanInputsDisjoint
