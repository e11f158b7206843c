SPECIFICATION MCSpec
CONSTANTS
    Jobs = {1, 2}
    Late = FALSE
    MaxFaults = 1
    Requests = {1, 2}
    MaxTools = 1
    RequestsDie = TRUE
    Window = 3
    Users = {"owner", "guest"}
    Owner = "owner"
    MaxTurns = 2
    MaxSteps = 2
    MaxDepth = 1
    MaxEvents = 2
CHECK_DEADLOCK FALSE
INVARIANTS
    SomebodyAnswers
    AnswersComeLast
    FailureClosesCalls
    
PROPERTIES
    CancelledStaysCancelled
