\* Not met by the code: a mapping that was refused or cut short is never repaired, since
\* the recorded port is taken for mapped (tunnel.rs:270).
SPECIFICATION TunnelSpec
CONSTANTS
    TunnelIds = {t1, t2}
    Ports = {1, 2}
    NoTunnel = NoTunnel
    Callers = {c1}
    MaxOps = 3
INVARIANT NeverSkipped
CHECK_DEADLOCK FALSE
