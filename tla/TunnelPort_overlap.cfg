\* Not met by the code: a reconcile writes back the record it has read, over the one that
\* another operation has recorded in the meantime (tunnel.rs:312).
SPECIFICATION TunnelSpec
CONSTANTS
    TunnelIds = {t1, t2}
    Ports = {1, 2}
    NoTunnel = NoTunnel
    Callers = {c1, c2}
    MaxOps = 3
PROPERTY OwnRecordReplaced
CHECK_DEADLOCK FALSE
