SPECIFICATION MCSpec
CONSTANTS
    Jobs = {1, 2}
    Late = FALSE
    MaxFaults = 2
    Tags = {"e"}
    MaxTurns = 2
    Agents = {"lead", "helper", "expert"}
    Root = "lead"
    Tools = {"look", "change"}
    Mutating = {"change"}
    FlowRun = "flow.run"
    Cases <- Setups
    MaxSteps = 3
    MaxDepth = 2
    Units = 2
CHECK_DEADLOCK FALSE
INVARIANTS
    NoteCarriesItsTags
    PlanCoversTheTurn
    
    FinishedIsWhole
