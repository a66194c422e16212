SPECIFICATION Spec
CONSTANTS
    Size = 4
    Start = 3
    Threads = {"ipc", "worker"}
    Ipc = "ipc"
    Worker = "worker"
    Aps = {"a", "b"}
    Odd = {5}
    Batch = 2
    Overlap = TRUE
    MaxNet = 5
    MaxMgmt = 1
    MaxJoins = 1
    MaxFrames = 6
INVARIANT SentInOrder
CHECK_DEADLOCK FALSE
