SPECIFICATION MCSpec
CONSTANTS
    Jobs = {1}
    Late = FALSE
    MaxFaults = 1
    Cards = {c1}
    Docs = {"d1", "d2"}
    Contents = {"a", "b"}
    Strict = FALSE
    MaxEdits = 1
    MaxRuns = 2
    MaxKills = 1
CHECK_DEADLOCK FALSE
INVARIANTS
    SucceededIsFollowable
    RowsComeWithTheirFiles
PROPERTIES
    OutcomesStand
