SPECIFICATION CleanSpec
CONSTANTS
    p1 = p1
    Procs = {p1, p2, p3}
    Ghosts = {g1}
    Inodes = {1, 2, 3}
    None = None
    ReuseInodes = TRUE
    Scope <- TwoScopes
    MaxCrashes = 1
SYMMETRY OtherSymmetry
INVARIANTS
    SafeUnlessRecovererDied
CHECK_DEADLOCK FALSE
