SPECIFICATION Spec
CONSTANTS
    p1 = p1
    Procs = {p1, p2}
    Ghosts = {g1}
    Inodes = {1, 2, 3}
    None = None
    ReuseInodes = TRUE
    Scope <- OneScope
    MaxCrashes = 0
SYMMETRY ProcSymmetry
INVARIANTS
    NoLostUpdate
CHECK_DEADLOCK FALSE
