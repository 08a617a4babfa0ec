CONSTANTS
    TxBuffers = 4
    EpSize = 2
    Frames = 2
    ZlpPeriod = 2
    LineErrors = 1
    MaxBytes = 5
    MaxControl = 1
SPECIFICATION FairSpec
INVARIANTS TypeOK InOrder OnlyOverrunsLoseBytes TransferOwnsOtherBuffer FullBufferNotStranded ReceiverArmed NeverHangs
PROPERTIES OneShortPerFrame ImplementsLossyWire Delivers ReadsComplete
