SPECIFICATION Spec
CONSTANTS
    N = 4
    Pool = 4
    Batch = 2
    CmdqSize = 4
    Tries = 2
    Script <- TearDown
    Air <- Quiet
    StartState = "EAPOL"
    MaxPending = 3
    MaxPkts = 6
INVARIANT RbOnce
INVARIANT InOrderOnce
INVARIANT AnswerMatches
PROPERTY EveryPacketHandled
CHECK_DEADLOCK FALSE
