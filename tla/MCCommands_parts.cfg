\* One small instance of every command and every stream.
SPECIFICATION CommandSpec
CONSTANTS
    Cwds = {"sub", "home"}
    Runners = {r1, r2}
    MaxCommands = 2
    MaxKills = 1
    MaxEdits = 1
    MaxFrames = 3
    MaxPayload = 4
    MaxId = 1
    MaxPhrases = 2
    MaxTitle = 2
    MaxRemainder = 10
    MaxModeRemainder = 5
    ScrollbackCap = 6
INVARIANTS
    LaunchInv
    ConfigInv
    BridgeInv
    CodecInv
    OutputInv
PROPERTIES
    LegacyKept
CHECK_DEADLOCK FALSE
SYMMETRY RunnerSymmetry
