SPECIFICATION Spec
CONSTANTS
    Nets = {"home", "work"}
    Wpa2 = {"home", "work"}
    Config <- MCConfig
    FwFails = TRUE
    ScanLate = TRUE
    ApLeaves = TRUE
    MaxCmds = 2
    MaxScans = 1
    MaxInstall = 2
INVARIANT ConnectedIsReal
INVARIANT KeysOfThisAttempt
INVARIANT CmdsInOrder
PROPERTY CmdCarriedOut
