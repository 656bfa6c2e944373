\* One small instance of every process of one machine.
SPECIFICATION LocalSpec
CONSTANTS
    Daemons = {d1, d2}
    Nobody = Nobody
    MaxRequests = 1
    MaxServers = 1
    MaxKeys = 2
    MaxHandovers = 1
    MaxSizes = 2
    MaxQueue = 2
    ExitCode = 7
    MaxOutput = 1
INVARIANTS
    DaemonInv
    AttachInv
    LifeInv
PROPERTIES
    RequestEnds
    ClientReturns
    DaemonReturns
CHECK_DEADLOCK FALSE
