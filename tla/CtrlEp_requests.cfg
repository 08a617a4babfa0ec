CONSTANTS
    CtrlSize = 2
    SetupSize = 1
    MaxLength = 3
    SetupOvertakes = FALSE
SPECIFICATION FairSpec
INVARIANTS OneCallback EarlyOnlyWhenGivenUp DataExact PayloadIsData StallMeansRefused
PROPERTY Answered
