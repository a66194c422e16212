SPECIFICATION Spec
CONSTANTS
    N = 8
    Pool = 8
    Batch = 2
    CmdqSize = 4
    Tries = 1
    Script <- OneQueue
    Air <- Handshake
    StartState = "EAPOL"
    MaxPending = 7
    MaxPkts = 6
INVARIANT AnswerMatches
CHECK_DEADLOCK FALSE
