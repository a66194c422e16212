SPECIFICATION Spec
CONSTANTS
    Configs <- MCConfigs
    Default <- MCDefault
    Miu = 2
    MaxDma = 6
    IntMax = 127
    StallTicks = 2
    ReapInterval = 2
    WriteSizes = {1, 3, 5}
    SharedFd = FALSE
    MayHang = TRUE
    MaxFrames = 10
INVARIANT NoOverwrite
INVARIANT SourceOfTruth
INVARIANT GeometryAgrees
PROPERTY XrunMeansDrained
PROPERTY WriteReturns
PROPERTY PeriodsPlay
