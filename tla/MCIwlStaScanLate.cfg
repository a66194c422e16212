SPECIFICATION Spec
CONSTANTS
    Nets = {"home", "work"}
    Wpa2 = {"home", "work"}
    Config <- MCConfig
    FwFails = FALSE
    ScanLate = TRUE
    ApLeaves = FALSE
    MaxCmds = 0
    MaxScans = 2
    MaxInstall = 2
INVARIANT ScanReadyFinished
