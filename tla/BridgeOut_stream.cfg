CONSTANTS
    RxBuffers = 4
    EpSize = 2
    MaxBytes = 5
    MaxControl = 2
SPECIFICATION FairSpec
INVARIANTS IndInv TypeOK InOrder OnlySwapsLoseBytes ReceptionAlive DmaOwnsOtherBuffer NeverHangs
PROPERTIES Drains ImplementsLossyWire
CHECK_DEADLOCK FALSE
