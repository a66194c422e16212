SPECIFICATION Spec
CONSTANTS
    Size = 4
    Start = 3
    Threads = {"ipc", "worker"}
    Ipc = "ipc"
    Worker = "worker"
    Aps = {"a", "b"}
    Odd = {5}
    Batch = 2
    Overlap = FALSE
    MaxNet = 5
    MaxMgmt = 1
    MaxJoins = 1
    MaxFrames = 6
INVARIANT NoOverwrite
INVARIANT SentInOrder
INVARIANT NetdInOrder
INVARIANT SessionFrames
PROPERTY EveryFrameSent
PROPERTY NetdServed
CHECK_DEADLOCK FALSE
