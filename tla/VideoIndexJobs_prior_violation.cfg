SPECIFICATION Spec
CONSTANTS
    Videos = {v1}
    Plans = {"p1"}
    Specs = {"spec1", "spec2"}
    StageOrder <- MCShortOrder
    SpecOf <- MCSpecOf
    MaxJobs = 3
    MaxStarts = 1
    MaxDamaged = 0
    MaxLeft = 0
    ScanLimit = 16
INVARIANTS ReleaseStaysServed
CHECK_DEADLOCK FALSE
