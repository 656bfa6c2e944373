SPECIFICATION InstallSpec
CONSTANTS
 Procs = {p1, p2}
 MaxRelease = 2
 MaxInstalls = 0
 MaxFaults = 1
PROPERTIES DeferredIsRetried
CHECK_DEADLOCK FALSE
