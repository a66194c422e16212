SPECIFICATION Spec
CONSTANTS
    Threads = {worker, ipc}
    Data = {d1, d2}
    Sizes <- MCSizes
    Room <- MCRoom
    QSize = 3
    BSize = 2
    WithReset = TRUE
    IdxCap = 8
INVARIANTS
    DepthBound
PROPERTY
    FifoSpec
