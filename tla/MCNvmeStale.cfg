SPECIFICATION Spec
CONSTANTS
    AsqSize = 4
    IoqSize = 3
    MaxChunk = 1
    Capacity = 2
    Values = {z, v}
    Zero = z
    CidSpace = 16
    Slow = TRUE
    MaxCount = 2
    MaxReqs = 2
INVARIANT OwnCompletion
CHECK_DEADLOCK FALSE
