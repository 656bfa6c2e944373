SPECIFICATION FairSpec
CONSTANTS
    p1 = p1
    Procs = {p1, p2}
    Ghosts = {g1}
    Inodes = {1, 2, 3, 4, 5, 6}
    None = None
    ReuseInodes = FALSE
    Scope <- OneScope
    MaxCrashes = 1
INVARIANTS
    TypeOK
    LocksExclusive
PROPERTIES
    ImplementsMetaStore
    ReclaimedFromClean
CHECK_DEADLOCK FALSE
