\* One small instance of every part that depends on the world outside.
SPECIFICATION NetworkSpec
CONSTANTS
    Tunnels = {own, t1}
    OwnTunnel = own
    DirectHost = direct
    NoTarget = NoTarget
    MaxChanges = 2
    TunnelIds = {t1, t2}
    Ports = {1, 2}
    NoTunnel = NoTunnel
    Callers = {c1, c2}
    MaxOps = 3
    Viewers = {v1, v2, v3}
    Requests = {q1}
    Readers = {r1, r2, r3}
    None = None
    Secrets = {TRUE, FALSE}
    SpawnEnabled = TRUE
    Quick = FALSE
    MaxWire = 2
    Procs = {p1, p2}
    MaxRelease = 2
    MaxInstalls = 1
    MaxFaults = 1
INVARIANTS
    UplinkInv
    TunnelInv
    ChannelInv
    InstallInv
PROPERTIES
    TargetsTried
    RequestAnswered
    LauncherCatchesUp
CHECK_DEADLOCK FALSE
