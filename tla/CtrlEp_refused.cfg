CONSTANTS
    CtrlSize = 2
    SetupSize = 1
    MaxLength = 3
    SetupOvertakes = FALSE
SPECIFICATION FairSpec
PROPERTY RefusedIsStalled
