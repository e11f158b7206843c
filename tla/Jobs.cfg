CONSTANTS
    None = None
    w1 = w1
    w2 = w2
    k1 = k1
    k2 = k2
    Web = Web
    Workers = {w1, w2}
    Keys = {}
    Jobs <- OneJob
    Priority <- SamePriority
    Exclusive <- NoneExclusive
    Models <- NoModels
    Size <- UnitSize
    SettingsChoices <- TwoAtOnce
    RetentionLimit = 0
    WindowSize = 2
    MaxFaults = 1
    TimelyHeartbeats = FALSE
SPECIFICATION MCSpec
PROPERTIES
    JobsFinish
    EveryTurnEnds
