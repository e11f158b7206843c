CONSTANTS
    None = None
    Unset = Unset
    Conns = {"c1", "c2"}
    Models <- Fingerprints
    Dims <- Widths
    Envs <- Pinnable
    Docs = {"d1", "d2"}
    Sessions = {"s1"}
    Alone = TRUE
    MaxEdits = 3
    MaxFaults = 1
    RequestsDie = FALSE
    Users = {u1, u2}
    Groups = {g}
    Ents = {e}
    Requests = {r1, r2}
    Streams = {w}
    Convs = {c1, c2}
    Tools = {t}
    MaxChanges = 2
SPECIFICATION MCSpec
SYMMETRY Symmetry
CHECK_DEADLOCK FALSE
INVARIANTS
    LiveShareOpens
    StreamCarriesItsTags
    ReadyIsSearchable
    OneWidth
PROPERTIES
    ServicesKeepAnAdministrator
    OnlyAWholeRunReplacesTheRecord
