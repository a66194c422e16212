SPECIFICATION Spec
CONSTANTS
    Configs <- MCOdd
    Default <- MCDefault
    Miu = 2
    MaxDma = 6
    IntMax = 127
    StallTicks = 2
    ReapInterval = 2
    WriteSizes = {1, 3, 5}
    SharedFd = FALSE
    MayHang = FALSE
    MaxFrames = 10
INVARIANT EngineTold
