SPECIFICATION Spec
CONSTANTS
    N = 4
    Pool = 4
    Batch = 2
    CmdqSize = 4
    Tries = 1
    Script <- NoScript
    Air <- Beacons
    StartState = "FW_LOADED"
    MaxPending = 4
    MaxPkts = 6
INVARIANT EqualIsDrained
CHECK_DEADLOCK FALSE
