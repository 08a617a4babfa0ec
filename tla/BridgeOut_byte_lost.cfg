CONSTANTS
    RxBuffers = 2
    EpSize = 2
    MaxBytes = 5
    MaxControl = 0
SPECIFICATION PromptSpec
INVARIANT NoByteLost
CHECK_DEADLOCK FALSE
