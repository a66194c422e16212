SPECIFICATION Spec
CONSTANTS
    Nets = {"home", "work"}
    Wpa2 = {"home", "work"}
    Config <- MCConfig
    FwFails = FALSE
    ScanLate = FALSE
    ApLeaves = FALSE
    MaxCmds = 2
    MaxScans = 1
    MaxInstall = 2
INVARIANT CleanSlate
INVARIANT ScanReadyFinished
