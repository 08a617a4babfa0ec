CONSTANTS
    Haltable = {"comm", "out", "rin", "rout"}
SPECIFICATION Spec
INVARIANTS FlagsMatchJobs OverrunReported EnabledAsConfigured FailsOnlyForHalt ReportIntact
CHECK_DEADLOCK FALSE
