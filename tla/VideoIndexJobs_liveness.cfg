SPECIFICATION FairSpec
CONSTANTS
    Videos = {v1, v2}
    Plans = {"p1"}
    Specs = {"spec1", "spec2"}
    StageOrder <- MCShortOrder
    SpecOf <- MCSpecOf
    MaxJobs = 2
    MaxStarts = 2
    MaxDamaged = 1
    MaxLeft = 1
    ScanLimit = 1
PROPERTIES QueuedJobsEnd
CHECK_DEADLOCK FALSE
