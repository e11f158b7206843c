CONSTANTS
    None = None
    w1 = w1
    w2 = w2
    k1 = k1
    k2 = k2
    Web = Web
    Workers = {w1, w2}
    Keys = {k1}
    Jobs <- TwoJobs
    Priority <- SamePriority
    Exclusive <- NoneExclusive
    Models <- OneModelEach
    Size <- UnitSize
    SettingsChoices <- Sequential
    RetentionLimit = 0
    WindowSize = 2
    MaxFaults = 1
    TimelyHeartbeats = TRUE
    c1 = c1
    c2 = c2
    x = x
    y = y
    Clients = {c1, c2}
    Owner <- OnePrincipal
    Admins = {x, y}
    Caps = {1}
    Limits = {1, 2}
    MaxRows = 3
    MaxSaves = 2
SPECIFICATION MCSpec
INVARIANTS
    OverlapOnlyInDrain
    WalkReturnsThePlan
    CapHoldsUpToTheRace
    SavedFormsStand
    ToldLoadsFitTheBudget
PROPERTIES
    AdmissionsFit
