SPECIFICATION Spec
CONSTANTS
    p1 = p1
    Procs = {p1, p2, p3}
    Ghosts = {g1}
    Inodes = {1, 2, 3, 4, 5, 6, 7}
    None = None
    ReuseInodes = FALSE
    Scope <- OneScope
    MaxCrashes = 0
SYMMETRY ProcSymmetry
INVARIANTS
    RecoveryExclusive
CHECK_DEADLOCK FALSE
