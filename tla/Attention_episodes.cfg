SPECIFICATION Spec
CONSTANTS
    Bodies = {b1, b2}
    Dims = {1, 2}
    Tokens = {1, 2, 3, 4}
    None = None
    IdleTicks = 2
    SettleTicks = 2
    Pausing = TRUE
    Jiggles = FALSE
INVARIANTS TypeOK EpisodeAgreed
PROPERTIES PauseSticks OutcomeFinal AckHolds
CHECK_DEADLOCK FALSE
