SPECIFICATION Spec
CONSTANTS
    Configs <- MCSmall
    Default <- MCDefault
    Miu = 2
    MaxDma = 4
    IntMax = 15
    StallTicks = 2
    ReapInterval = 2
    WriteSizes = {1, 4}
    SharedFd = FALSE
    MayHang = FALSE
    MaxFrames = 14
PROPERTY XrunMeansDrained
