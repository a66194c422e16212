SPECIFICATION Spec
CONSTANTS
    N = 8
    Pool = 8
    Batch = 2
    CmdqSize = 4
    Tries = 1
    Script <- OneQueue
    Air <- Rekey
    StartState = "EAPOL"
    MaxPending = 7
    MaxPkts = 6
INVARIANT NestingBound
INVARIANT RspBufferLive
PROPERTY WorkerReturns
CHECK_DEADLOCK FALSE
