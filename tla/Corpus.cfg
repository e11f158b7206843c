SPECIFICATION MCSpec
CONSTANTS
    Docs = {"d1"}
    Entitlements = {"e1"}
    Streams = {"s1"}
    Convs = {"c1", "c2"}
    HomeOf <- MCHomeOf
    Principals <- MCPrincipals
    Writers = {"w1"}
    MaxPins = 1
    MaxFailures = 1
    Jobs = {1, 2}
    Late = FALSE
    MaxFaults = 1
    Conns = {"a", "b"}
    Sources = {"d"}
    Limits = {1, 2}
    MaxChanges = 1
CHECK_DEADLOCK FALSE
INVARIANTS
    
    SearchMatchesTheLists
    WithdrawnIsNotCited
PROPERTIES
    QueueAsPromised
