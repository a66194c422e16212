SPECIFICATION Spec
CONSTANTS
    Nets = {"home", "work"}
    Wpa2 = {"home", "work"}
    Config <- MCConfig
    FwFails = FALSE
    ScanLate = FALSE
    ApLeaves = TRUE
    MaxCmds = 0
    MaxScans = 1
    MaxInstall = 2
INVARIANT CleanSlate
