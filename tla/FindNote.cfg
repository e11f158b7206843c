SPECIFICATION Spec
CONSTANTS
    Jobs = {1, 2}
    Late = FALSE
    MaxFaults = 1
    Tags = {"e"}
    MaxTurns = 2
PROPERTIES
    LabelsOnlyGrow
CHECK_DEADLOCK FALSE
