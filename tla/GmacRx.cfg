SPECIFICATION MCSpec
CONSTANTS
    DescNum = 3
    SemMax = 1
    MaxFrames = 5
    MaxFrags = 2
    Interrupt = FALSE
    Failures = {"alloc", "input"}
INVARIANTS TypesOK FrameWakesNetin SegmentsAreOurs FramesIntactInOrder EveryFrameAccountedFor
PROPERTIES FramesConsumed
