SPECIFICATION Spec
CONSTANTS
    AsqSize = 4
    IoqSize = 2
    MaxChunk = 2
    Capacity = 3
    Values = {z, v}
    Zero = z
    CidSpace = 9
    Slow = FALSE
    MaxCount = 3
    MaxReqs = 2
INVARIANT OwnCompletion
INVARIANT RequestResult
PROPERTY DeviceSpec
CHECK_DEADLOCK FALSE
