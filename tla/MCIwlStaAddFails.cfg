SPECIFICATION Spec
CONSTANTS
    Nets = {"home", "work"}
    Wpa2 = {"home", "work"}
    Config <- MCConfig
    FwFails = TRUE
    ScanLate = FALSE
    ApLeaves = FALSE
    MaxCmds = 0
    MaxScans = 1
    MaxInstall = 2
INVARIANT CleanSlate
