SPECIFICATION Spec
CONSTANTS
    Videos = {v1}
    Plans = {"p1", "p2"}
    Specs = {"spec1", "spec2"}
    StageOrder <- MCStageOrder
    SpecOf <- MCSpecOf
    MaxJobs = 2
    MaxStarts = 1
    MaxDamaged = 0
    MaxLeft = 1
    ScanLimit = 16
INVARIANTS TypeOK CoherentRelease
PROPERTIES ReleaseOnlyByCompletion ImplementsVideoRelease
CHECK_DEADLOCK FALSE
