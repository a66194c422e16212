SPECIFICATION Spec
CONSTANTS
    N = 4
    Pool = 4
    Batch = 2
    CmdqSize = 4
    Tries = 1
    Script <- NoScript
    Air <- Handshake
    StartState = "EAPOL"
    MaxPending = 3
    MaxPkts = 6
INVARIANT CmdqNeverFull
CHECK_DEADLOCK FALSE
