CONSTANTS
    EpSize = 2
    MaxTrans = 3
    MaxSize = 2
    ClearsUnhalted = FALSE
SPECIFICATION Spec
PROPERTY RestartsAtData0
