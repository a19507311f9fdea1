SPECIFICATION Spec
CONSTANTS
    DescNum = 3
    SemMax = 2
    MaxFrames = 3
    MaxFrags = 1
    Interrupt = TRUE
    Failures = {"alloc"}
INVARIANTS NoFrameStranded
CHECK_DEADLOCK FALSE
