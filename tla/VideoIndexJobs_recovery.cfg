SPECIFICATION Spec
CONSTANTS
    Videos = {v1}
    Plans = {"p1"}
    Specs = {"spec1", "spec2"}
    StageOrder <- MCShortOrder
    SpecOf <- MCSpecOf
    MaxJobs = 3
    MaxStarts = 2
    MaxDamaged = 0
    MaxLeft = 1
    ScanLimit = 16
INVARIANTS SettledAttempts StatusReflectsJobs SequentialAttempts RetryLineage RunningIsOwned
PROPERTIES TerminalImmutable
CHECK_DEADLOCK FALSE
