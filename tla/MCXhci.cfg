SPECIFICATION Spec
CONSTANT RingTrbs = 4
CONSTANT EvtTrbs = 5
CONSTANT Full = 1
CONSTANT Lengths = {1}
CONSTANT Budget <- Answering
INVARIANT OwnCompletion
INVARIANT CommandsInStep
INVARIANT ReportsOnce
INVARIANT LengthsTrue
INVARIANT ChunksOnce
PROPERTY WrittenIdle
PROPERTY CallsReturn
PROPERTY Converges
PROPERTY ReportsReturned
