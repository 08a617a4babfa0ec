CONSTANT HostWaits = FALSE
SPECIFICATION FairSpec
PROPERTY ResumeReported
CHECK_DEADLOCK FALSE
