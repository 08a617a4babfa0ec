CONSTANTS
    EpSize = 2
    MaxTrans = 3
    MaxSize = 2
    ClearsUnhalted = TRUE
SPECIFICATION Spec
INVARIANT OnlyHaltCallbacks
