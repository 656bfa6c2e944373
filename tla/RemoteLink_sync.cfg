SPECIFICATION Spec
CONSTANTS
    Conns = {c1, c2}
    Sessions = {s1, s2}
    None = None
    MaxTargets = 1
    BridgeOff = TRUE
    MaxSessions = 2
    MaxQueue = 1
    MaxStops = 1
    UplinkSecret = TRUE
    IngestSecret = TRUE
    Overlap = FALSE
    Gap = FALSE
    PromptPoll = TRUE
INVARIANTS
    RemoteInv
CHECK_DEADLOCK FALSE
SYMMETRY Symmetry
