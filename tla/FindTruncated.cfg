SPECIFICATION MediaSpec
CONSTANTS
    Jobs = {1}
    Late = FALSE
    MaxFaults = 2
    Units = 2
INVARIANTS
    FinishedIsWholeAlways
CHECK_DEADLOCK FALSE
