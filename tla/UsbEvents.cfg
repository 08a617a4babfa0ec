CONSTANT HostWaits = TRUE
SPECIFICATION Spec
INVARIANTS StateFollowsBus LockedWhileInUse
CHECK_DEADLOCK FALSE
