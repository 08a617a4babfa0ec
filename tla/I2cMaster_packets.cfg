CONSTANTS
    MaxLength = 3
    OtherMasters = TRUE
SPECIFICATION Spec
INVARIANTS OkMeansTransferred BusReleased
