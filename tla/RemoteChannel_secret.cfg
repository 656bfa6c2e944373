SPECIFICATION ChannelFairSpec
CONSTANTS
    Viewers = {v1, v2, v3}
    Requests = {q1}
    Readers = {r1, r2, r3}
    None = None
    Secrets = {TRUE}
    SpawnEnabled = TRUE
    Quick = FALSE
    MaxWire = 2
PROPERTIES ViewersServed
CHECK_DEADLOCK FALSE
