SPECIFICATION Spec
CONSTANT RingTrbs = 4
CONSTANT EvtTrbs = 5
CONSTANT Full = 1
CONSTANT Lengths = {1}
CONSTANT Budget <- Untouched
PROPERTY TdsOnlyWhileIdle
