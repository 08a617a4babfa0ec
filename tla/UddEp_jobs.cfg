CONSTANTS
    EpSize = 2
    MaxTrans = 3
    MaxSize = 5
    ClearsUnhalted = FALSE
SPECIFICATION FairSpec
INVARIANTS OneAnswer TransferAlive OutInsideBuffer AnswersExact
PROPERTY Answered
