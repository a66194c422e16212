SPECIFICATION Spec
CONSTANTS
    Configs <- MCSmall
    Default <- MCDefault
    Miu = 2
    MaxDma = 4
    IntMax = 127
    StallTicks = 2
    ReapInterval = 2
    WriteSizes = {4}
    SharedFd = TRUE
    MayHang = FALSE
    MaxFrames = 8
PROPERTY WriterWoken
