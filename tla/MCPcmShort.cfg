SPECIFICATION Spec
CONSTANTS
    Configs <- MCSmall
    Default <- MCDefault
    Miu = 2
    MaxDma = 4
    IntMax = 127
    StallTicks = 2
    ReapInterval = 2
    WriteSizes = {0, 4}
    SharedFd = FALSE
    MayHang = FALSE
    MaxFrames = 8
PROPERTY WriteReturns
