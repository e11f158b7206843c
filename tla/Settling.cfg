SPECIFICATION MCSpec
CONSTANTS
    Docs = {1, 2}
    Versions = {1, 2}
    Jobs = {1, 2}
    Requests = {r1, r2}
    Tabular = FALSE
    Late = FALSE
    RequestsDie = FALSE
    MaxFaults = 1
    MaxArrivals = 2
    None = None
    Spellings = {"alice", "Alice"}
    Canonical <- OneName
    Posts = {"p1", "p2"}
    Threshold = 2
    Window = 2
CHECK_DEADLOCK FALSE
INVARIANTS
    SomebodyIsResponsible
    RestingRowsAreTrue
    GuessesAreBounded
PROPERTIES
    DocumentsSettle
    NavConverges
